---- MODULE Spec2Model ----
(***************************************************************************)
(* Position reconciliation controller (partial_closing_manager.py) and the  *)
(* order submission of the execution engine (mt5_handler.py), together     *)
(* with the trading venue they talk to and the persisted state file.       *)
(*                                                                         *)
(* Volumes are counted in units of the instrument's volume step, prices in *)
(* pips of the one instrument traded.  A venue call that can fail draws    *)
(* its outcome from the set of outcomes the venue can produce.             *)
(***************************************************************************)
EXTENDS Integers, Sequences, FiniteSets, TLC

\* ------------------------------------------------------------- bounds
MaxTickets == 2
FirstTicket == 9
MaxPrice == 3

Tickets == FirstTicket .. (FirstTicket + MaxTickets - 1)
Prices == 0 .. MaxPrice

\* ------------------------------------------------- configuration, venue data
\* self.handlers: the account sessions, in list order
Handlers == <<101, 102>>
Logins == {Handlers[i] : i \in 1..Len(Handlers)}

\* settings.get('secure_tp1_pips_buffer', 0)
BufferPips == 1
\* handler.get_symbol_pip_info(symbol), in price units
PipSize == 1
\* symbol_info.volume_min and symbol_info.volume_step, in step units
VolumeMin == 1
VolumeStep == 1

\* The signals the parser hands to the engine: one long, one short.
\* tps are the take-profit levels, num_tps their count.
Signals ==
  [G1 |-> [group_id |-> "G1", direction |-> "BUY", tps |-> <<2, 3>>,
           num_tps |-> 2, price |-> 1],
   G2 |-> [group_id |-> "G2", direction |-> "SELL", tps |-> <<1, 0>>,
           num_tps |-> 2, price |-> 2]]
\* The entries the engine sends to the venue, in the order the venue hands
\* out ticket numbers: a signal, the account, the kind of entry.
Orders ==
  <<[group |-> "G1", login |-> 101, entry |-> "MARKET"],
    [group |-> "G1", login |-> 102, entry |-> "LIMIT"],
    [group |-> "G2", login |-> 102, entry |-> "MARKET"],
    [group |-> "G2", login |-> 101, entry |-> "LIMIT"]>>
OrderOf(ticket) == Orders[((ticket - FirstTicket) % Len(Orders)) + 1]
\* the volume calculate_lot_size returns for these signals: num_tps shares of
\* one step each
LotSize(signal) == signal.num_tps * VolumeStep

NoTick == [ok |-> FALSE, bid |-> 0, ask |-> 0]
Ticks == {NoTick} \cup {[ok |-> TRUE, bid |-> p, ask |-> p] : p \in Prices}

\* ------------------------------------------------------------ helpers
Min(a, b) == IF a <= b THEN a ELSE b
Max(a, b) == IF a >= b THEN a ELSE b

Range(s) == {s[i] : i \in 1..Len(s)}

RECURSIVE SortedSeq(_)
SortedSeq(S) ==
  IF S = {} THEN <<>>
  ELSE LET m == CHOOSE x \in S : \A y \in S : x <= y
       IN <<m>> \o SortedSeq(S \ {m})

Restrict(f, S) == [x \in (DOMAIN f) \cap S |-> f[x]]

\* str(k) of a non-negative integer: its decimal digits
RECURSIVE IntToStr(_)
IntToStr(n) ==
  IF n < 10 THEN <<n>> ELSE IntToStr(n \div 10) \o <<n % 10>>

\* int(s) of a digit string
RECURSIVE StrToInt(_)
StrToInt(s) ==
  IF Len(s) = 0 THEN 0
  ELSE 10 * StrToInt(SubSeq(s, 1, Len(s) - 1)) + s[Len(s)]

\* ------------------------------------------------------------- state
VARIABLES
  up,              \* the process is running
  venue,           \* venue: ticket -> the order/position the venue holds
  nextTicket,      \* the next ticket number the venue assigns
  position_data,   \* self.position_data (ManagedState): ticket -> entry
  registration_queue, \* self.registration_queue: sequence of tasks
  file,            \* positions_state.json
  stop_event,      \* self._stop_event
  pc,              \* where the controller thread is in run()
  open_positions,  \* run(): this iteration's position snapshot, ticket -> position
  pending_orders,  \* run(): this iteration's pending-order snapshot (tickets)
  actions_to_perform, \* run(): the actions still to execute this iteration
  cycle_secured,   \* run(): secured_groups of the apply loop
  market,          \* the market data the venue served to this iteration's decide step
  \* ---- history, read by the properties only
  log,             \* venue requests sent in the current iteration
  closeCount,      \* <<ticket, target index>> -> partial closes submitted
  pruned,          \* tickets ever removed from position_data as absent
  need,            \* ticket -> age of a securing owed since its group's trigger
  atStop,          \* position_data as stop() saved it, until the next process polls
  lastWriter,      \* who wrote the file last: "none", "run" or "stop"
  sizing,          \* one call of calculate_lot_size: its inputs and what it returned
  conc,            \* the threads of the process, the locks they hold, their venue calls
  caught,          \* run(): how often the except clause has run in this process
  cancel_owed,     \* history: pending orders whose removal the venue refused
  trade            \* one call of execute_trade: its signal, its progress, its requests

vars == <<up, venue, nextTicket, position_data, registration_queue, file,
          stop_event, pc, open_positions, pending_orders, actions_to_perform,
          cycle_secured, market, log, closeCount, pruned, need, atStop,
          lastWriter,
          sizing, conc, caught, cancel_owed, trade>>

Empty == [t \in {} |-> 0]

\* --------------------------------------------------- persisted state
\* json.dump(data_to_save): the keys of a JSON object are strings, so each
\* integer ticket is written as str(ticket); lists and booleans are kept.
JsonDump(data) ==
  LET keys == {IntToStr(t) : t \in DOMAIN data}
  IN [kind |-> "json",
      data |-> [k \in keys |-> data[CHOOSE t \in DOMAIN data : IntToStr(t) = k]]]

NoFile == [kind |-> "absent", data |-> Empty]

\* What the file can hold, by file.kind:
\*   "absent"      no file;
\*   "json"        a JSON object, data: key string -> value;
\*   "array"       valid JSON that is not an object (a list, a number, null);
\*   "invalid"     text that is not JSON;
\*   "unreadable"  the file exists and open() fails (OSError).
\* A key string is a sequence of characters: the digits 0..9, and Letter for
\* any character int() does not take.
Letter == 0 - 1
IsIntKey(k) == Len(k) > 0 /\ \A i \in 1..Len(k) : k[i] \in 0..9

\* _load_state, the exceptions that leave it: open() raising OSError and
\* json.load(f).items() raising AttributeError are not among the caught
\* (json.JSONDecodeError, ValueError)
LoadRaises(f) == f.kind \in {"unreadable", "array"}

\* _load_state: {int(k): v for k, v in json.load(f).items()}; {} when the
\* file does not exist, when json.load raises JSONDecodeError, when int(k)
\* raises ValueError
LoadStateInt(f) ==
  IF f.kind # "json" THEN Empty
  ELSE IF \E k \in DOMAIN f.data : ~IsIntKey(k) THEN Empty
  ELSE LET ks == DOMAIN f.data
           ts == {StrToInt(k) : k \in ks}
       IN [t \in ts |-> f.data[CHOOSE k \in ks : StrToInt(k) = t]]

_load_state(f) == LoadStateInt(f)

\* a save that leaves the lists of triggered indices out
SaveWithoutTps(data) == JsonDump([t \in DOMAIN data |-> [data[t] EXCEPT !.closed_tps = <<>>]])

\* _save_state
_save_state(data) == JsonDump(data)

\* ------------------------------------------------------------- venue
NoOrder == [st |-> "none", volume |-> 0, sl |-> "orig", login |-> 0,
            type |-> "BUY", price_open |-> 0, group |-> ""]

\* positions_get / orders_get for every handler
VenueOpen == {t \in Tickets : venue[t].st = "open"}
VenuePending == {t \in Tickets : venue[t].st = "pending"}
Live(t) == venue[t].st \in {"open", "pending"}

\* the position objects positions_get returns
PositionOf(t) ==
  [ticket |-> t, volume |-> venue[t].volume, type |-> venue[t].type,
   price_open |-> venue[t].price_open, login |-> venue[t].login]

\* _find_handler_by_login
_find_handler_by_login(login_id) ==
  IF login_id \in Logins THEN login_id ELSE 0

\* linked_positions in list order: handler by handler, tickets ascending
RECURSIVE ByHandler(_, _, _)
ByHandler(f, S, i) ==
  IF i > Len(Handlers) THEN <<>>
  ELSE SortedSeq({t \in S : f[t].login = Handlers[i]}) \o ByHandler(f, S, i + 1)

PositionList(positions) == ByHandler(positions, DOMAIN positions, 1)

\* --------------------------------------------- controller: pure steps
Put(f, k, v) == [x \in (DOMAIN f) \cup {k} |-> IF x = k THEN v ELSE f[x]]

\* the entry _process_registration_queue stores for one task
NewEntry(task) ==
  [account_login |-> task.account_login,
   signal |-> task.signal_data,
   original_volume |-> task.original_volume,
   closed_tps |-> <<>>,
   is_secured |-> FALSE,
   group_id |-> task.group_id,
   pending_close_volume |-> 0]

\* only the first task is stored, the rest of the queue is dropped
IngestHead(pd, q) ==
  IF q = <<>> THEN pd ELSE Put(pd, Head(q).ticket, NewEntry(Head(q)))

\* _process_registration_queue: drain the queue in order
RECURSIVE _process_registration_queue(_, _)
_process_registration_queue(pd, q) ==
  IF q = <<>> THEN pd
  ELSE _process_registration_queue(Put(pd, Head(q).ticket, NewEntry(Head(q))),
                                   Tail(q))

\* _cleanup_closed_trades, first loop: the snapshot positions that are not
\* managed and whose handler is found, in list order
GhostPositions(plist, positions, pd) ==
  SelectSeq(plist, LAMBDA t : t \notin DOMAIN pd
                              /\ _find_handler_by_login(positions[t].login) # 0)

\* _cleanup_closed_trades, second loop: drop every ticket that is neither
\* an open position nor a pending order of the snapshot
PruneAll(pd, active) == Restrict(pd, active)
PruneOne(pd, active) ==
  LET gone == (DOMAIN pd) \ active
  IN IF gone = {} THEN pd
     ELSE Restrict(pd, (DOMAIN pd) \ {CHOOSE t \in gone : \A u \in gone : t <= u})
Prune(pd, active) == PruneAll(pd, active)

\* round(a / b) of two positive integers, ties to even
RoundDiv(a, b) ==
  LET q == a \div b
      r == a % b
  IN IF 2 * r < b THEN q
     ELSE IF 2 * r > b THEN q + 1
     ELSE IF q % 2 = 0 THEN q ELSE q + 1

\* _close_full: the volume handed to _close_partial
FullVolume(position) == position.volume
OneStep(position) == VolumeStep
_close_full(position) == FullVolume(position)

\* round(a / b) on binary floats: the nearest whole number; where the decimal
\* quotient lies exactly between two whole numbers the float quotient lies on
\* either side of it, and the result is either neighbour
RoundedQuotients(a, b) ==
  IF 2 * (a % b) = b THEN {a \div b, a \div b + 1} ELSE {RoundDiv(a, b)}

\* _close_partial without line 292: the rounded volume is not cut to the
\* volume of the position
UncutVolumes(position, volume_to_close, symbol_info) ==
  IF volume_to_close <= 0 THEN {0}
  ELSE IF ~symbol_info.ok THEN {0}
  ELSE LET v1 == Max(volume_to_close, symbol_info.volume_min)
       IN {IF q * symbol_info.volume_step < symbol_info.volume_min
           THEN 0 ELSE q * symbol_info.volume_step :
             q \in RoundedQuotients(v1, symbol_info.volume_step)}

\* _close_partial for an instrument with any volume_min and volume_step: the
\* volumes of the order it can send, 0 when none is sent (volume not positive,
\* symbol info missing, or below the minimum)
SentVolumes(position, volume_to_close, symbol_info) ==
  IF volume_to_close <= 0 THEN {0}
  ELSE IF ~symbol_info.ok THEN {0}
  ELSE LET v1 == Max(volume_to_close, symbol_info.volume_min)
       IN {IF Min(q * symbol_info.volume_step, position.volume) < symbol_info.volume_min
           THEN 0 ELSE Min(q * symbol_info.volume_step, position.volume) :
             q \in RoundedQuotients(v1, symbol_info.volume_step)}

\* _close_partial on the instrument of the signals (volume_min VolumeMin,
\* volume_step VolumeStep, for which no quotient is a tie): the volume of the
\* order sent, 0 when none is sent
_close_partial(position, volume_to_close, info) ==
  CHOOSE v \in SentVolumes(position, volume_to_close,
                           [ok |-> info, volume_min |-> VolumeMin,
                            volume_step |-> VolumeStep]) : TRUE

\* _decide_on_position_actions: groups with a secured member
SecuredGroups(pd) ==
  {pd[t].group_id : t \in {u \in DOMAIN pd : pd[u].is_secured /\ pd[u].group_id # ""}}

CurrentPrice(pos, tick) == IF pos.type = "SELL" THEN tick.bid ELSE tick.ask

BufferEveryTarget(tp_num, pip_size) == BufferPips * pip_size
BufferAmount(tp_num, pip_size) ==
  IF pip_size # 0 /\ tp_num = 1 THEN BufferPips * pip_size ELSE 0

IsHit(type, price, tp_level, buffer_amount) ==
  \/ type = "BUY" /\ price >= tp_level - buffer_amount
  \/ type = "SELL" /\ price <= tp_level + buffer_amount

\* the last target that is not consumed and is hit, else 0
LastHit(pos, pos_info, price, i) ==
  LET hits == {0} \cup {k \in i..Len(pos_info.signal.tps) :
                          /\ k \notin Range(pos_info.closed_tps)
                          /\ IsHit(pos.type, price, pos_info.signal.tps[k],
                                   BufferAmount(k, PipSize))}
  IN CHOOSE k \in hits : \A j \in hits : j <= k
\* the first target from index i on that is not consumed and is hit, else 0
RECURSIVE FirstHit(_, _, _, _)
FirstHit(pos, pos_info, price, i) ==
  IF i > Len(pos_info.signal.tps) THEN 0
  ELSE IF i \in Range(pos_info.closed_tps) THEN FirstHit(pos, pos_info, price, i + 1)
  ELSE IF IsHit(pos.type, price, pos_info.signal.tps[i], BufferAmount(i, PipSize))
       THEN i
  ELSE FirstHit(pos, pos_info, price, i + 1)

VolumePerTp(pos_info) == RoundDiv(pos_info.original_volume, pos_info.signal.num_tps)

CloseAction(pos, vol, k) ==
  [type |-> "close", ticket |-> pos.ticket, volume |-> vol, group_id |-> "",
   tp_num |-> k]
SecureAction(g) ==
  [type |-> "secure_group", ticket |-> 0, volume |-> 0, group_id |-> g,
   tp_num |-> 0]

\* pos_info.setdefault('closed_tps', []).append(tp_num)
AppendTp(pos_info, k) == [pos_info EXCEPT !.closed_tps = Append(@, k)]
KeepTps(pos_info, k) == pos_info
ResetTps(pos_info, k) == [pos_info EXCEPT !.closed_tps = <<k>>]
AppendUpward(pos_info, k) == [pos_info EXCEPT !.closed_tps = @ \o <<k, k + 1>>]
MarkConsumed(pos_info, k) == AppendTp(pos_info, k)

\* whether a hit of target k of group g plans the group's securing
PlansSecureCode(k, g, secured) == k = 1 /\ g # "" /\ g \notin secured
PlansSecureAlways(k, g, secured) == k = 1 /\ g # ""
PlansSecure(k, g, secured) == PlansSecureCode(k, g, secured)

\* one pass of the loop body for one snapshot position; acc carries
\* position_data, action_list, secured_groups and state_changed
DecideOne(acc, pos, mkt) ==
  IF pos.ticket \notin DOMAIN acc.pd THEN acc
  ELSE IF _find_handler_by_login(pos.login) = 0 THEN acc
  ELSE IF ~mkt.info THEN acc
  ELSE IF ~mkt.tick.ok THEN acc
  ELSE LET pos_info == acc.pd[pos.ticket]
           g == pos_info.group_id
           k == FirstHit(pos, pos_info, CurrentPrice(pos, mkt.tick), 1)
           plan == PlansSecure(k, g, acc.secured)
       IN IF k = 0 THEN acc
          ELSE [pd |-> [acc.pd EXCEPT ![pos.ticket] = MarkConsumed(pos_info, k)],
                actions |-> acc.actions
                            \o <<CloseAction(pos, VolumePerTp(pos_info), k)>>
                            \o (IF plan THEN <<SecureAction(g)>> ELSE <<>>),
                secured |-> IF plan THEN acc.secured \cup {g} ELSE acc.secured,
                changed |-> TRUE]

RECURSIVE DecideLoop(_, _, _, _)
DecideLoop(acc, plist, positions, mkt) ==
  IF plist = <<>> THEN acc
  ELSE DecideLoop(DecideOne(acc, positions[Head(plist)], mkt), Tail(plist),
                  positions, mkt)

_decide_on_position_actions(pd, plist, positions, mkt) ==
  DecideLoop([pd |-> pd, actions |-> <<>>, secured |-> SecuredGroups(pd),
              changed |-> FALSE], plist, positions, mkt)

\* ------------------------------------------------ venue side effects
\* a close deal of volume v on position t that the venue executes
VenueClose(vn, t, v) ==
  [vn EXCEPT ![t] = IF vn[t].volume - v <= 0
                    THEN [@ EXCEPT !.st = "gone", !.volume = 0]
                    ELSE [@ EXCEPT !.volume = @ - v]]

\* the close deals the venue is able to execute: the position is still open
\* and holds at least the volume asked for
CanClose(vn, t, v) == vn[t].st = "open" /\ v > 0 /\ v <= vn[t].volume

RECURSIVE CloseAll(_, _, _)
CloseAll(vn, S, vol) ==
  IF S = {} THEN vn
  ELSE LET t == CHOOSE x \in S : TRUE
       IN CloseAll(VenueClose(vn, t, vol[t]), S \ {t}, vol)

\* ---------------------------------------------------------- lot sizing
\* Volumes of calculate_lot_size are counted in thousandths of a lot, money
\* in whole units.  round(x, 2) keeps hundredths of a lot: Cent volume units.
Cent == 10
Percent == 100
UnitsPerLot == Cent * Percent

\* bounds of the inputs of one sizing call
MaxBalance == 3
MaxTargets == 3
MaxStop == 2

\* symbol_info as sizing reads it; tick_value or tick_size -1 stands for None
SymbolInfos ==
  [ok : {TRUE}, trade_tick_value : {-1, 0, 1}, trade_tick_size : {0, 1, 2},
   volume_min : {10, 20}, volume_step : {2, 10}, volume_max : {50}]
  \cup {[ok |-> FALSE, trade_tick_value |-> 0, trade_tick_size |-> 0,
         volume_min |-> 0, volume_step |-> 0, volume_max |-> 0]}

NotSized == [ok |-> FALSE, volume |-> 0]
Sized(v) == [ok |-> TRUE, volume |-> v]

CeilDiv(a, b) == (a + b - 1) \div b

WholeCents(v) == v

\* round(x, 2) of a volume: the nearest hundredth of a lot, ties to even
Round2(v) ==
  LET q == v \div Cent
      r == v % Cent
  IN IF 2 * r < Cent THEN q * Cent
     ELSE IF 2 * r > Cent THEN (q + 1) * Cent
     ELSE IF q % 2 = 0 THEN q * Cent ELSE (q + 1) * Cent

\* calculate_lot_size.  raw_total_volume is the fraction num / den of volume
\* units, with num = balance * risk_percent * tick_size * UnitsPerLot and
\* den = Percent * sl_distance * tick_value; the comparisons and the ceiling
\* are taken on the fraction.
calculate_lot_size(account_ok, balance, risk_percent, num_tps0, symbol_info, sl_distance) ==
  IF ~account_ok THEN NotSized
  ELSE IF ~symbol_info.ok THEN NotSized
  ELSE IF sl_distance = 0 THEN NotSized
  ELSE IF symbol_info.trade_tick_value = -1 \/ symbol_info.trade_tick_size = -1
          \/ symbol_info.trade_tick_size = 0 THEN NotSized
  ELSE IF sl_distance * symbol_info.trade_tick_value = 0 THEN NotSized
  ELSE LET num == balance * risk_percent * symbol_info.trade_tick_size * UnitsPerLot
           num_tps == IF num_tps0 <= 0 THEN 1 ELSE num_tps0
           den == Percent * sl_distance * symbol_info.trade_tick_value * num_tps
           volume_min == symbol_info.volume_min
           volume_step == symbol_info.volume_step
           \* ceil(max(raw_volume_per_tp, volume_min) / volume_step)
           steps == IF num > volume_min * den
                    THEN CeilDiv(num, den * volume_step)
                    ELSE CeilDiv(volume_min, volume_step)
           final_volume_per_tp == steps * volume_step
           total == Min(symbol_info.volume_max, final_volume_per_tp * num_tps)
           final_total_volume == IF total < volume_min THEN volume_min ELSE total
       IN Sized(Round2(final_total_volume))

NoSizing ==
  [account_ok |-> FALSE, balance |-> 0, risk_percent |-> 0, num_tps |-> 0,
   symbol_info |-> [ok |-> FALSE, trade_tick_value |-> 0, trade_tick_size |-> 0,
                    volume_min |-> 0, volume_step |-> 0, volume_max |-> 0],
   sl_distance |-> 0, done |-> FALSE, result |-> NotSized]

\* the calls of calculate_lot_size that are looked at
SizingInputs ==
  [account_ok : BOOLEAN, balance : 0..MaxBalance, risk_percent : {1, 2},
   num_tps : 0..MaxTargets, symbol_info : SymbolInfos, sl_distance : 0..MaxStop,
   done : {FALSE}, result : {NotSized}]

\* ------------------------------------------- one call of execute_trade
\* no call of execute_trade is looked at
NoTrade == [login |-> 0, signal |-> Signals.G1, entries |-> <<>>, i |-> 0,
            done |-> <<>>]

\* the entries a signal lists in one call looked at
MaxEntries == 3

\* signal['entries']: a market entry, a limit entry at a price, an entry of a
\* type that order_type_map does not know
Entries ==
  {[type |-> "MARKET", price |-> 0], [type |-> "LIMIT", price |-> 1],
   [type |-> "LIMIT", price |-> 2], [type |-> "ZONE", price |-> 2]}

\* signal['sl'] of the signals traded
StopLoss == 1

\* order_type_map.get(entry_type_key): the key is the direction, joined to
\* the entry type unless that is MARKET; <<>> stands for None
TradeType(direction, type) ==
  IF type = "MARKET" /\ direction \in {"BUY", "SELL"} THEN <<direction>>
  ELSE IF type \in {"LIMIT", "STOP"} /\ direction \in {"BUY", "SELL"}
       THEN <<direction, type>>
  ELSE <<>>

\* what order_send returns: retcode DONE with the ticket in result.order, a
\* refusal (another retcode), or None
NoResult == [retcode |-> "none", order |-> 0]
Results(ticket) ==
  {[retcode |-> "done", order |-> ticket], [retcode |-> "rejected", order |-> 0],
   NoResult}

\* what the account and the symbol answer to one entry's sizing
TradeSymbolInfos ==
  {si \in SymbolInfos :
     /\ si.ok => si.volume_min = 10 /\ si.volume_step = 10 /\ si.trade_tick_size = 1
     /\ si.trade_tick_value \in {0, 1}}

Abs(x) == IF x < 0 THEN 0 - x ELSE x

NoRequest == [action |-> "none", volume |-> 0, price |-> 0]
NoTask == [ticket |-> 0, account_login |-> 0, signal_data |-> Signals.G1,
           original_volume |-> 0, group_id |-> ""]

\* the registration is queued for a result with retcode DONE only
RegistersDone(result) == result.retcode = "done"
RegistersSent(result) == TRUE
Registers(result) == RegistersDone(result)

\* MT5Handler._execute_single_order for one entry: what came of it, the
\* request sent to the venue if one was sent, the task queued if one was
EntryAborted(outcome) ==
  [outcome |-> outcome, request |-> NoRequest, task |-> NoTask]
_execute_single_order(login, signal, entry_info, tick, account_ok, symbol_info, result) ==
  IF TradeType(signal.direction, entry_info.type) = <<>> THEN EntryAborted("invalid")
  ELSE IF entry_info.type = "MARKET" /\ ~tick.ok THEN EntryAborted("no_tick")
  ELSE LET entry_price == IF entry_info.type # "MARKET" THEN entry_info.price
                          ELSE IF signal.direction = "BUY" THEN tick.ask
                          ELSE tick.bid
           sized == calculate_lot_size(account_ok, MaxBalance, 2, signal.num_tps,
                                       symbol_info, Abs(entry_price - StopLoss))
       IN IF ~sized.ok \/ sized.volume <= 0 THEN EntryAborted("no_volume")
          ELSE [outcome |-> IF result.retcode = "done" THEN "accepted"
                            ELSE "rejected",
                request |-> [action |-> IF entry_info.type = "MARKET"
                                        THEN "DEAL" ELSE "PENDING",
                             volume |-> sized.volume,
                             price |-> IF entry_info.type = "MARKET" THEN 0
                                       ELSE entry_info.price],
                task |-> IF Registers(result)
                         THEN [ticket |-> result.order, account_login |-> login,
                               signal_data |-> signal,
                               original_volume |-> sized.volume,
                               group_id |-> signal.group_id]
                         ELSE NoTask]

\* execute_trade: `for entry in signal['entries']`, the entry after entry i
\* of n whatever came of it
NextInList(i, outcome, n) == i + 1
AbortSignal(i, outcome, n) == IF outcome = "accepted" THEN i + 1 ELSE n + 1
NextEntry(i, outcome, n) == NextInList(i, outcome, n)

\* the calls of execute_trade that are looked at
RECURSIVE EntryLists(_)
EntryLists(n) ==
  IF n = 0 THEN {<<>>}
  ELSE LET shorter == EntryLists(n - 1)
       IN shorter \cup {Append(es, e) : es \in {x \in shorter : Len(x) = n - 1},
                                        e \in Entries}
TradeInputs ==
  [login : Logins, signal : {Signals.G1, Signals.G2},
   entries : EntryLists(MaxEntries) \ {<<>>}, i : {1}, done : {<<>>}]

\* ------------------------------------------------- threads and locks
\* The threads of the process: run() of the controller, main() at shutdown,
\* and one asyncio.to_thread(handler.execute_trade, ...) per handler.  Each
\* thread executes a sequence of instructions: take or release a lock, or a
\* call of the venue library for an account, which is in progress from its
\* start to its return.
SelfLock == 0
EngineThread(l) == IF l = Handlers[1] THEN "trade1" ELSE "trade2"
Threads == {"run", "main"} \cup {EngineThread(l) : l \in Logins}

Acquire(l) == [op |-> "acquire", login |-> l, call |-> ""]
Release(l) == [op |-> "release", login |-> l, call |-> ""]
VenueCall(l, c) == [op |-> "call", login |-> l, call |-> c]
NoCall == [op |-> "none", login |-> 0, call |-> ""]

\* the venue calls that change an order or a position
Mutation(c) == c = "order_send"

\* MT5Handler.execute_trade with one market entry: under handler.lock, the
\* tick, calculate_lot_size (account_info, symbol_info), get_filling_mode
\* (symbol_info), order_send, and the registration of the accepted order
\* registration_queue.put(task) on a Queue() without maxsize: it never waits
QueuePut(l) == [op |-> "put", login |-> l, call |-> ""]
RegisterByQueue(l) == <<QueuePut(l)>>
RegisterUnderStateLock(l) == <<Acquire(SelfLock), Release(SelfLock)>>
RegisterHoldingStateLock(l) == <<Acquire(SelfLock), QueuePut(l), Release(SelfLock)>>
Register(l) == RegisterByQueue(l)

LockedTrade(l) ==
  <<Acquire(l), VenueCall(l, "symbol_info_tick"), VenueCall(l, "account_info"),
    VenueCall(l, "symbol_info"), VenueCall(l, "symbol_info"),
    VenueCall(l, "order_send")>> \o Register(l) \o <<Release(l)>>
UnlockedTrade(l) ==
  <<VenueCall(l, "symbol_info_tick"), VenueCall(l, "account_info"),
    VenueCall(l, "symbol_info"), VenueCall(l, "symbol_info"),
    VenueCall(l, "order_send")>> \o Register(l)
execute_trade(l) == LockedTrade(l)

\* _get_all_open_positions and _get_all_pending_orders: one query per
\* handler under its lock
RECURSIVE SnapshotCalls(_, _)
SnapshotCalls(c, i) ==
  IF i > Len(Handlers) THEN <<>>
  ELSE <<Acquire(Handlers[i]), VenueCall(Handlers[i], c), Release(Handlers[i])>>
       \o SnapshotCalls(c, i + 1)
_get_all_open_positions == SnapshotCalls("positions_get", 1)
_get_all_pending_orders == SnapshotCalls("orders_get", 1)

\* _close_partial on account l: under handler.lock, symbol_info,
\* get_filling_mode (symbol_info), order_send
ClosePartialCalls(l) ==
  <<Acquire(l), VenueCall(l, "symbol_info"), VenueCall(l, "symbol_info"),
    VenueCall(l, "order_send"), Release(l)>>

\* _secure_position on account l: under handler.lock, order_send, then the
\* flag is set under self.lock (the venue confirmed)
_secure_position(l) ==
  <<Acquire(l), VenueCall(l, "order_send"), Acquire(SelfLock), Release(SelfLock),
    Release(l)>>

\* _delete_pending_order on account l
_delete_pending_order(l) ==
  <<Acquire(l), VenueCall(l, "order_send"), Release(l)>>

\* _decide_on_position_actions for one position of account l whose first
\* target is hit: symbol_info, symbol_info_tick, get_symbol_pip_info
\* (symbol_info); no lock is taken here
DecideCalls(l) ==
  <<VenueCall(l, "symbol_info"), VenueCall(l, "symbol_info_tick"),
    VenueCall(l, "symbol_info")>>

\* _save_state: under self.lock
SaveCalls == <<Acquire(SelfLock), Release(SelfLock)>>

OtherLogin(l) == IF l = Handlers[1] THEN Handlers[2] ELSE Handlers[1]

\* what one iteration of run() meets: the account of a ghost position (0:
\* none) and the account of a managed position whose first target is hit (0:
\* none), its group having a position on every account and a pending order on
\* the other one
Plans == [ghost : Logins \cup {0}, hit : Logins \cup {0}]

\* one iteration of run(): the snapshots, the block under self.lock (the
\* ghost close of _cleanup_closed_trades, the decide step, the save), then
\* the scheduled actions
RunCalls(plan) ==
  _get_all_open_positions \o _get_all_pending_orders
  \o <<Acquire(SelfLock)>>
  \o (IF plan.ghost # 0 THEN ClosePartialCalls(plan.ghost) ELSE <<>>)
  \o (IF plan.hit # 0 THEN DecideCalls(plan.hit) \o SaveCalls ELSE <<>>)
  \o <<Release(SelfLock)>>
  \o (IF plan.hit # 0
      THEN ClosePartialCalls(plan.hit)
           \o _secure_position(Handlers[1]) \o _secure_position(Handlers[2])
           \o _delete_pending_order(OtherLogin(plan.hit))
      ELSE <<>>)

\* main() at shutdown: stop() (the flag, then _save_state), then
\* disconnect_mt5 of every handler, which calls mt5.shutdown
RECURSIVE DisconnectCalls(_)
DisconnectCalls(i) ==
  IF i > Len(Handlers) THEN <<>>
  ELSE <<VenueCall(Handlers[i], "shutdown")>> \o DisconnectCalls(i + 1)
StopCalls == SaveCalls \o DisconnectCalls(1)

FreeLock == [owner |-> "free", count |-> 0]

\* no thread is running: the value of conc where threads are not looked at
NoThreads ==
  [lock |-> [l \in Logins |-> "free"], self_lock |-> FreeLock,
   prog |-> [th \in Threads |-> <<>>], wire |-> [th \in Threads |-> NoCall],
   stopping |-> FALSE, running |-> FALSE]

ProgramVars == <<up, venue, nextTicket, position_data, registration_queue, file,
                 stop_event, pc, open_positions, pending_orders,
                 actions_to_perform, cycle_secured, market, log, closeCount,
                 pruned, need, atStop, lastWriter, sizing, caught, cancel_owed,
                 trade>>

\* main(): a signal arrives, handler l trades in a thread of its own
StartTrade(l) ==
  /\ conc.running /\ ~conc.stopping
  /\ conc.prog[EngineThread(l)] = <<>>
  /\ conc' = [conc EXCEPT !.prog[EngineThread(l)] = execute_trade(l)]
  /\ UNCHANGED ProgramVars

\* run(): the loop test is passed and an iteration starts
StartIteration(plan) ==
  /\ conc.running /\ ~conc.stopping
  /\ conc.prog["run"] = <<>>
  /\ conc' = [conc EXCEPT !.prog["run"] = RunCalls(plan)]
  /\ UNCHANGED ProgramVars

\* main(): stop() sets the flag; the save and the disconnects follow
StartStop ==
  /\ conc.running /\ ~conc.stopping
  /\ conc' = [conc EXCEPT !.stopping = TRUE, !.prog["main"] = StopCalls]
  /\ UNCHANGED ProgramVars

\* threading.Lock of a handler: taken when free, the caller waits otherwise;
\* threading.RLock of the controller: taken when free or owned by the caller
Step(th) ==
  /\ conc.running
  /\ conc.prog[th] # <<>>
  /\ LET ins == Head(conc.prog[th])
         rest == Tail(conc.prog[th])
     IN \/ /\ ins.op = "acquire" /\ ins.login # SelfLock
           /\ conc.lock[ins.login] = "free"
           /\ conc' = [conc EXCEPT !.lock[ins.login] = th, !.prog[th] = rest]
        \/ /\ ins.op = "release" /\ ins.login # SelfLock
           /\ conc' = [conc EXCEPT !.lock[ins.login] = "free", !.prog[th] = rest]
        \/ /\ ins.op = "acquire" /\ ins.login = SelfLock
           /\ conc.self_lock.owner \in {"free", th}
           /\ conc' = [conc EXCEPT
                 !.self_lock = [owner |-> th, count |-> conc.self_lock.count + 1],
                 !.prog[th] = rest]
        \/ /\ ins.op = "release" /\ ins.login = SelfLock
           /\ conc' = [conc EXCEPT
                 !.self_lock = IF conc.self_lock.count = 1 THEN FreeLock
                               ELSE [owner |-> th, count |-> conc.self_lock.count - 1],
                 !.prog[th] = rest]
        \/ /\ ins.op = "call" /\ conc.wire[th] = NoCall
           /\ conc' = [conc EXCEPT !.wire[th] = ins]
        \/ /\ ins.op = "call" /\ conc.wire[th] = ins
           /\ conc' = [conc EXCEPT !.wire[th] = NoCall, !.prog[th] = rest]
        \/ /\ ins.op = "put"
           /\ conc' = [conc EXCEPT !.prog[th] = rest]
  /\ UNCHANGED ProgramVars

\* --------------------------------------------------------- the engine
\* MT5Handler._execute_single_order for one entry of a signal on an account:
\* the venue accepts the order (a market entry opens a position, a limit or
\* stop entry leaves a pending order) and the registration task is queued,
\* or the venue rejects it and nothing is queued.  The handler's lock is held
\* from order_send to queue.put, and the controller's snapshot of the account
\* takes the same lock, so the two are one step for every observer.
Submit(accepted) ==
  /\ up /\ ~stop_event /\ pc # "sleep"
  /\ nextTicket \in Tickets
  /\ LET o == OrderOf(nextTicket)
         signal == Signals[o.group]
         volume == LotSize(signal)
         ticket == nextTicket
     IN IF accepted
        THEN /\ venue' = [venue EXCEPT ![ticket] =
                   [st |-> IF o.entry = "MARKET" THEN "open" ELSE "pending",
                    volume |-> volume, sl |-> "orig", login |-> o.login,
                    type |-> signal.direction, price_open |-> signal.price,
                    group |-> signal.group_id]]
             /\ nextTicket' = nextTicket + 1
             /\ registration_queue' = Append(registration_queue,
                   [ticket |-> ticket, account_login |-> o.login,
                    signal_data |-> signal, original_volume |-> volume,
                    group_id |-> signal.group_id])
        ELSE UNCHANGED <<venue, nextTicket, registration_queue>>
  /\ UNCHANGED <<up, position_data, file, stop_event, pc, open_positions,
                 pending_orders, actions_to_perform, cycle_secured, market, log,
                 closeCount, pruned, need, atStop, lastWriter, sizing, conc,
                 caught, cancel_owed,
                 trade>>

\* ------------------------------------------------- the venue's own moves
\* a pending order is filled and becomes a position with the same ticket
Fill(t) ==
  /\ pc # "sleep"
  /\ venue[t].st = "pending"
  /\ venue' = [venue EXCEPT ![t].st = "open"]
  /\ UNCHANGED <<up, nextTicket, position_data, registration_queue, file,
                 stop_event, pc, open_positions, pending_orders,
                 actions_to_perform, cycle_secured, market, log, closeCount,
                 pruned, need, atStop, lastWriter, sizing, conc,
                 caught, cancel_owed,
                 trade>>

\* a position is closed at the venue (stop-loss, final target, by hand), or a
\* pending order expires
VenueGone(t) ==
  /\ pc # "sleep"
  /\ Live(t)
  /\ venue' = [venue EXCEPT ![t] = [@ EXCEPT !.st = "gone", !.volume = 0]]
  /\ UNCHANGED <<up, nextTicket, position_data, registration_queue, file,
                 stop_event, pc, open_positions, pending_orders,
                 actions_to_perform, cycle_secured, market, log, closeCount,
                 pruned, need, atStop, lastWriter, sizing, conc,
                 caught, cancel_owed,
                 trade>>

\* ------------------------------------------------- the controller loop
NoMarket == [info |-> FALSE, tick |-> NoTick]

\* run(): while not self._stop_event
WhileNotStopped(stop) == ~stop
WhileTrue(stop) == TRUE
LoopTest(stop) == WhileNotStopped(stop)

\* run(): the loop test, then _get_all_open_positions
SnapshotPositions ==
  /\ up /\ pc = "idle" /\ LoopTest(stop_event)
  /\ open_positions' = [t \in VenueOpen |-> PositionOf(t)]
  /\ pc' = "orders"
  /\ atStop' = Empty
  /\ lastWriter' = IF lastWriter = "stop" THEN "none" ELSE lastWriter
  /\ UNCHANGED <<up, venue, nextTicket, position_data, registration_queue, file,
                 stop_event, pending_orders, actions_to_perform, cycle_secured,
                 market, log, closeCount, pruned, need, sizing, conc,
                 caught, cancel_owed,
                 trade>>

\* run(): _get_all_pending_orders, a second venue query after the first
SnapshotOrders ==
  /\ up /\ pc = "orders"
  /\ pending_orders' = VenuePending
  /\ pc' = "locked"
  /\ cancel_owed' = cancel_owed \cap VenuePending
  /\ UNCHANGED <<up, venue, nextTicket, position_data, registration_queue, file,
                 stop_event, open_positions, actions_to_perform, cycle_secured,
                 market, log, closeCount, pruned, need, atStop,
                 lastWriter, sizing, conc, caught, trade>>

\* run(): the loop ends once _stop_event is set
LoopExit ==
  /\ up /\ pc = "idle" /\ ~LoopTest(stop_event)
  /\ pc' = "done"
  /\ UNCHANGED <<up, venue, nextTicket, position_data, registration_queue, file,
                 stop_event, open_positions, pending_orders, actions_to_perform,
                 cycle_secured, market, log, closeCount, pruned, need, atStop, lastWriter, sizing, conc,
                 caught, cancel_owed,
                 trade>>

\* run(), the block under self.lock, as a function of what it reads: ingest
\* the queue, find the ghosts and the volume of the close sent for each,
\* prune, decide; state_changed is what makes run() save.
Iteration(pd, q, positions, pending, mkt) ==
  LET plist == PositionList(positions)
      pd1 == _process_registration_queue(pd, q)
      ghosts == GhostPositions(plist, positions, pd1)
      gvol == [t \in Range(ghosts) |->
                 _close_partial(positions[t], _close_full(positions[t]), mkt.info)]
      pd2 == Prune(pd1, (DOMAIN positions) \cup pending)
      d == _decide_on_position_actions(pd2, plist, positions, mkt)
  IN [ingested |-> pd1,
      gvol |-> gvol,
      sent |-> {t \in Range(ghosts) : gvol[t] > 0},
      pruned |-> (DOMAIN pd1) \ (DOMAIN pd2),
      pd |-> d.pd,
      actions |-> d.actions,
      state_changed |-> q # <<>> \/ DOMAIN pd2 # DOMAIN pd1 \/ d.changed]

\* the groups an action list secures
PlannedGroups(actions) ==
  {actions[i].group_id : i \in {j \in 1..Len(actions) : actions[j].type = "secure_group"}}

\* run(), the block under self.lock.  mkt is the market data the venue serves
\* during the block, okG the ghost closes the venue executes.
LockedPhase(mkt, okG) ==
  /\ up /\ pc = "locked"
  /\ LET it == Iteration(position_data, registration_queue, open_positions,
                         pending_orders, mkt)
     IN /\ okG \subseteq {t \in it.sent : CanClose(venue, t, it.gvol[t])}
        /\ venue' = CloseAll(venue, okG, it.gvol)
        /\ position_data' = it.pd
        /\ registration_queue' = <<>>
        /\ file' = IF it.state_changed THEN _save_state(it.pd) ELSE file
        /\ lastWriter' = IF it.state_changed THEN "run" ELSE lastWriter
        /\ actions_to_perform' = it.actions
        /\ cycle_secured' = {}
        /\ pc' = IF it.actions = <<>> THEN "sleep" ELSE "apply"
        /\ market' = mkt
        /\ log' = {[kind |-> "ghost", ticket |-> t, volume |-> it.gvol[t]] :
                     t \in it.sent}
        /\ pruned' = {t \in pruned \cup it.pruned : Live(t)}
        /\ need' = [t \in Tickets |->
                      IF t \notin DOMAIN it.pd \/ t \notin DOMAIN open_positions THEN 0
                      ELSE IF need[t] = 1 THEN 2
                      ELSE IF need[t] = 0
                              /\ it.pd[t].group_id \in PlannedGroups(it.actions)
                           THEN 1
                      ELSE need[t]]
  /\ UNCHANGED <<up, nextTicket, stop_event, open_positions, pending_orders,
                 closeCount, atStop, sizing, conc,
                 caught, cancel_owed,
                 trade>>

\* _secure_position: the flag is set for the tickets whose modification the
\* venue confirmed (retcode DONE)
SetSecured(pd, okS) ==
  [t \in DOMAIN pd |-> IF t \in okS THEN [pd[t] EXCEPT !.is_secured = TRUE] ELSE pd[t]]

\* every managed ticket of the group, positions and pending orders alike
SecureWholeGroup(pd, group_id) == {t \in DOMAIN pd : pd[t].group_id = group_id}

\* _secure_trade_group: the snapshot positions that get a modification request
SecureTargets(pd, group_id) ==
  {t \in DOMAIN open_positions :
     /\ t \in DOMAIN pd
     /\ pd[t].group_id = group_id
     /\ ~pd[t].is_secured
     /\ _find_handler_by_login(open_positions[t].login) # 0}

\* _cancel_pending_orders_for_group: the snapshot orders that get a removal
CancelTargets(pd, group_id) ==
  {t \in pending_orders :
     /\ t \in DOMAIN pd
     /\ pd[t].group_id = group_id
     /\ _find_handler_by_login(venue[t].login) # 0}

\* run(), the loop over actions_to_perform: one action per step.  info is
\* whether symbol_info answers, okC whether the venue executes the close,
\* okS and okD the modifications and removals the venue confirms.
ApplyAction(info, okC, okS, okD) ==
  /\ up /\ pc = "apply" /\ actions_to_perform # <<>>
  /\ LET action == Head(actions_to_perform)
         rest == Tail(actions_to_perform)
     IN /\ actions_to_perform' = rest
        /\ pc' = IF rest = <<>> THEN "sleep" ELSE "apply"
        /\ CASE action.type = "close" ->
                LET pos == open_positions[action.ticket]
                    v == _close_partial(pos, action.volume, info)
                    key == <<action.ticket, action.tp_num>>
                IN /\ okS = {} /\ okD = {}
                   /\ okC => v > 0 /\ CanClose(venue, action.ticket, v)
                   /\ venue' = IF okC THEN VenueClose(venue, action.ticket, v)
                               ELSE venue
                   /\ closeCount' = IF v > 0
                                    THEN [closeCount EXCEPT ![key] = Min(@ + 1, 2)]
                                    ELSE closeCount
                   /\ log' = IF v > 0
                             THEN log \cup {[kind |-> "close", ticket |-> action.ticket,
                                             volume |-> v]}
                             ELSE log
                   /\ UNCHANGED <<position_data, cycle_secured, cancel_owed>>
             [] action.type = "secure_group" ->
                LET g == action.group_id
                    fresh == g \notin cycle_secured
                    st == IF fresh THEN SecureTargets(position_data, g) ELSE {}
                    ct == IF fresh THEN CancelTargets(position_data, g) ELSE {}
                IN /\ ~okC /\ ~info
                   /\ okS \subseteq {t \in st : venue[t].st = "open"}
                   /\ okD \subseteq {t \in ct : venue[t].st = "pending"}
                   /\ venue' = [t \in Tickets |->
                                  IF t \in okS THEN [venue[t] EXCEPT !.sl = "entry"]
                                  ELSE IF t \in okD
                                       THEN [venue[t] EXCEPT !.st = "gone", !.volume = 0]
                                  ELSE venue[t]]
                   /\ position_data' = SetSecured(position_data, okS)
                   /\ cycle_secured' = cycle_secured \cup {g}
                   /\ log' = log
                        \cup {[kind |-> "sltp", ticket |-> t, volume |-> 0] : t \in st}
                        \cup {[kind |-> "remove", ticket |-> t, volume |-> 0] : t \in ct}
                   /\ cancel_owed' = cancel_owed \cup (ct \ okD)
                   /\ UNCHANGED closeCount
             [] OTHER ->
                \* 'close_ghost': _close_full(action['position'], handler);
                \* no step of the loop ever schedules this type
                /\ ~okC /\ ~info /\ okS = {} /\ okD = {}
                /\ UNCHANGED <<venue, position_data, cycle_secured, closeCount, log,
                               cancel_owed>>
  /\ UNCHANGED <<up, nextTicket, registration_queue, file, stop_event,
                 open_positions, pending_orders, market, pruned, need,
                 atStop, lastWriter, sizing, conc,
                 caught, trade>>

\* run(): time.sleep(2) ends the iteration; its snapshot and action list are
\* dropped.
Sleep ==
  /\ up /\ pc = "sleep"
  /\ pc' = "idle"
  /\ open_positions' = Empty
  /\ pending_orders' = {}
  /\ cycle_secured' = {}
  /\ log' = {}
  /\ market' = NoMarket
  /\ UNCHANGED <<up, venue, nextTicket, position_data, registration_queue, file,
                 stop_event, actions_to_perform, closeCount, pruned, need,
                 atStop, lastWriter, sizing, conc,
                 caught, cancel_owed,
                 trade>>

\* ------------------------------------------------ shutdown and restart
\* stop(): set the stop flag, then the final save
StopSaves(pd) == _save_state(pd)
StopKeepsFile(pd) == file
StopFile(pd) == StopSaves(pd)

Stop ==
  /\ up /\ ~stop_event /\ pc # "sleep"
  /\ stop_event' = TRUE
  /\ file' = StopFile(position_data)
  /\ atStop' = position_data
  /\ lastWriter' = "stop"
  /\ UNCHANGED <<up, venue, nextTicket, position_data, registration_queue, pc,
                 open_positions, pending_orders, actions_to_perform,
                 cycle_secured, market, log, closeCount, pruned, need, sizing, conc,
                 caught, cancel_owed,
                 trade>>

\* the process is gone: its memory (position_data, the queue, the loop's
\* locals) goes with it, the file and the venue stay
Gone ==
  /\ up' = FALSE
  /\ position_data' = Empty
  /\ registration_queue' = <<>>
  /\ stop_event' = FALSE
  /\ pc' = "idle"
  /\ open_positions' = Empty
  /\ pending_orders' = {}
  /\ actions_to_perform' = <<>>
  /\ cycle_secured' = {}
  /\ market' = NoMarket
  /\ log' = {}
  /\ need' = [t \in Tickets |-> 0]
  /\ pruned' = {}
  /\ caught' = 0
  /\ cancel_owed' = {}
  /\ UNCHANGED <<venue, nextTicket, file, closeCount, sizing, conc, trade>>

\* main(): the process ends after stop(); the daemon thread ends with it
ProcessExit ==
  /\ up /\ stop_event /\ pc # "sleep"
  /\ Gone
  /\ UNCHANGED <<atStop, lastWriter>>

\* the process is killed at an arbitrary point
Crash ==
  /\ up /\ ~stop_event /\ pc # "sleep"
  /\ Gone
  /\ atStop' = Empty
  /\ lastWriter' = "none"

\* __init__ of the next process: position_data is loaded from the file, the
\* queue is new and empty, the loop starts
Restart ==
  /\ ~up /\ ~LoadRaises(file)
  /\ up' = TRUE
  /\ position_data' = _load_state(file)
  /\ UNCHANGED <<venue, nextTicket, registration_queue, file, stop_event, pc,
                 open_positions, pending_orders, actions_to_perform,
                 cycle_secured, market, log, closeCount, pruned, need, atStop,
                 lastWriter, sizing, conc,
                 caught, cancel_owed,
                 trade>>

\* ------------------------------------------------------ specification
\* the state after construction, the sizing record aside
InitProgram ==
  /\ up = TRUE
  /\ venue = [t \in Tickets |-> NoOrder]
  /\ nextTicket = FirstTicket
  /\ file = NoFile
  /\ position_data = _load_state(NoFile)
  /\ registration_queue = <<>>
  /\ stop_event = FALSE
  /\ pc = "idle"
  /\ open_positions = Empty
  /\ pending_orders = {}
  /\ actions_to_perform = <<>>
  /\ cycle_secured = {}
  /\ market = NoMarket
  /\ log = {}
  /\ closeCount = [k \in Tickets \X (1..2) |-> 0]
  /\ pruned = {}
  /\ need = [t \in Tickets |-> 0]
  /\ atStop = Empty
  /\ lastWriter = "none"
  /\ cancel_owed = {}

Init ==
  /\ InitProgram
  /\ sizing = NoSizing /\ conc = NoThreads /\ caught = 0 /\ trade = NoTrade

Engine == \E ok \in BOOLEAN : Submit(ok)

Venue ==
  \/ \E t \in Tickets : Fill(t)
  \/ \E t \in Tickets : VenueGone(t)

Controller ==
  \/ SnapshotPositions
  \/ SnapshotOrders
  \/ LoopExit
  \/ \E info \in BOOLEAN, tick \in Ticks, okG \in SUBSET Tickets :
        /\ info \/ tick = NoTick
        /\ LockedPhase([info |-> info, tick |-> tick], okG)
  \/ \E info \in BOOLEAN, okC \in BOOLEAN, okS \in SUBSET Tickets,
        okD \in SUBSET Tickets : ApplyAction(info, okC, okS, okD)
  \/ Sleep

Next ==
  \/ Engine
  \/ Venue
  \/ Controller
  \/ Stop
  \/ ProcessExit
  \/ Crash
  \/ Restart

Spec == Init /\ [][Next]_vars

\* ------------------------------------- specification of the lot sizing
\* one call of calculate_lot_size on each input of SizingInputs
SizeOrder ==
  /\ ~sizing.done
  /\ sizing' = [sizing EXCEPT
        !.done = TRUE,
        !.result = calculate_lot_size(sizing.account_ok, sizing.balance,
                                      sizing.risk_percent, sizing.num_tps,
                                      sizing.symbol_info, sizing.sl_distance)]
  /\ UNCHANGED <<up, venue, nextTicket, position_data, registration_queue, file,
                 stop_event, pc, open_positions, pending_orders,
                 actions_to_perform, cycle_secured, market, log, closeCount,
                 pruned, need, atStop, lastWriter, conc, caught, cancel_owed,
                 trade>>

InitLot ==
  /\ InitProgram
  /\ sizing \in SizingInputs /\ conc = NoThreads /\ caught = 0 /\ trade = NoTrade
\* round(original_volume / num_tps, 2) on binary floats: where the decimal
\* quotient lies exactly between two hundredths, the float lies on either
\* side of it and the result is either neighbour
SharesOf(pos_info) ==
  IF 2 * (pos_info.original_volume % pos_info.signal.num_tps) = pos_info.signal.num_tps
  THEN {pos_info.original_volume \div pos_info.signal.num_tps,
        pos_info.original_volume \div pos_info.signal.num_tps + 1}
  ELSE {VolumePerTp(pos_info)}

\* _decide_on_position_actions, lines 181-187, for a position registered with
\* the volume the sizing returned (original_volume, in hundredths of a lot):
\* target k is hit and its partial close is scheduled
ScheduleClose ==
  /\ sizing.done /\ sizing.result.ok /\ sizing.num_tps >= 1
  /\ actions_to_perform = <<>>
  /\ \E k \in 1..sizing.num_tps :
       LET pos_info == [original_volume |-> sizing.result.volume \div Cent,
                        signal |-> [num_tps |-> sizing.num_tps]]
       IN \E v \in SharesOf(pos_info) :
            actions_to_perform' = <<CloseAction([ticket |-> FirstTicket], v, k)>>
  /\ UNCHANGED <<up, venue, nextTicket, position_data, registration_queue, file,
                 stop_event, pc, open_positions, pending_orders,
                 cycle_secured, market, log, closeCount,
                 pruned, need, atStop, lastWriter, sizing, conc, caught,
                 cancel_owed, trade>>

NextLot == SizeOrder \/ ScheduleClose
SpecLot == InitLot /\ [][NextLot]_vars

\* ------------------------------ specification of the threads and locks
\* the process is running: its threads start with no lock held
InitThreads ==
  /\ InitProgram /\ sizing = NoSizing /\ caught = 0 /\ trade = NoTrade
  /\ conc = [NoThreads EXCEPT !.running = TRUE]
NextThreads ==
  \/ \E l \in Logins : StartTrade(l)
  \/ \E plan \in Plans : StartIteration(plan)
  \/ StartStop
  \/ \E th \in Threads : Step(th)
SpecThreads == InitThreads /\ [][NextThreads]_vars

\* ------------------------------------- specification with failures
\* run(): `except Exception` logs the failure; time.sleep(2) follows
LogAndContinue == "sleep"
LeaveLoop == "done"
ExceptClause == LogAndContinue

\* the failures looked at in one process
MaxFailures == 1

\* the steps of the block under self.lock at which a failure is raised
Cuts == {"ingest", "prune", "decide"}

\* An exception other than a venue refusal is raised in the try block of
\* run().  In a snapshot (pc "idle" past the loop test, or "orders") nothing
\* has changed yet.  In the block under self.lock it is raised
\*   "ingest": in _process_registration_queue, the first task taken from the
\*             queue and not entered;
\*   "prune":  in the loop that prunes, the queue ingested and the ghost
\*             closes sent;
\*   "decide": in _decide_on_position_actions after its targets were marked
\*             consumed (volume_per_tp is computed after the append);
\* the block's save and the scheduled actions are skipped.  In the apply
\* loop the actions not yet executed are dropped.
Fail(cut, mkt, okG) ==
  /\ up /\ caught < MaxFailures
  /\ pc \in {"idle", "orders", "locked", "apply"}
  /\ pc = "idle" => LoopTest(stop_event)
  /\ pc = "apply" => actions_to_perform # <<>>
  /\ pc # "locked" => cut = "ingest" /\ mkt = NoMarket /\ okG = {}
  /\ LET it == Iteration(position_data, registration_queue, open_positions,
                         pending_orders, mkt)
         sent == IF pc = "locked" /\ cut # "ingest" THEN okG ELSE {}
     IN /\ pc = "locked" /\ cut = "ingest" =>
             registration_queue # <<>> /\ mkt = NoMarket /\ okG = {}
        /\ okG \subseteq {t \in it.sent : CanClose(venue, t, it.gvol[t])}
        /\ venue' = CloseAll(venue, sent, it.gvol)
        /\ position_data' =
             IF pc # "locked" \/ cut = "ingest" THEN position_data
             ELSE IF cut = "prune" THEN it.ingested
             ELSE it.pd
        /\ registration_queue' =
             IF pc # "locked" THEN registration_queue
             ELSE IF cut = "ingest" THEN Tail(registration_queue)
             ELSE <<>>
        /\ log' = IF pc = "locked" /\ cut # "ingest"
                  THEN {[kind |-> "ghost", ticket |-> t, volume |-> it.gvol[t]] :
                          t \in it.sent}
                  ELSE log
        /\ pruned' = IF pc = "locked" /\ cut = "decide"
                     THEN {t \in pruned \cup it.pruned : Live(t)}
                     ELSE pruned
        /\ market' = IF pc = "locked" THEN mkt ELSE market
  /\ actions_to_perform' = <<>>
  /\ pc' = ExceptClause
  /\ caught' = caught + 1
  /\ UNCHANGED <<up, nextTicket, file, stop_event, open_positions,
                 pending_orders, cycle_secured, closeCount, need, atStop,
                 lastWriter, sizing, conc, cancel_owed, trade>>

Failure ==
  \E cut \in Cuts, info \in BOOLEAN, tick \in Ticks, okG \in SUBSET Tickets :
    /\ info \/ tick = NoTick
    /\ Fail(cut, [info |-> info, tick |-> tick], okG)

\* a running process, its orders, the venue, stop(), and failures
NextFail ==
  \/ Engine
  \/ Venue
  \/ Controller
  \/ Stop
  \/ Failure
SpecFail == Init /\ [][NextFail]_vars

\* ------------------------------- specification of one execute_trade call
\* execute_trade, one pass of its loop: _execute_single_order for entry i.
\* tick, account_ok and symbol_info are what the venue answers to the
\* entry's queries, result what it answers to order_send.
ExecuteEntry(tick, account_ok, symbol_info, result) ==
  /\ up /\ trade.i \in 1..Len(trade.entries)
  /\ LET r == _execute_single_order(trade.login, trade.signal,
                                    trade.entries[trade.i], tick, account_ok,
                                    symbol_info, result)
     IN /\ r.request = NoRequest => result = NoResult
        /\ trade' = [trade EXCEPT
              !.i = NextEntry(trade.i, r.outcome, Len(trade.entries)),
              !.done = Append(@, [index |-> trade.i, outcome |-> r.outcome,
                                  request |-> r.request, result |-> result])]
        /\ registration_queue' = IF r.task = NoTask THEN registration_queue
                                 ELSE Append(registration_queue, r.task)
        /\ nextTicket' = IF result.retcode = "done" THEN nextTicket + 1
                         ELSE nextTicket
  /\ UNCHANGED <<up, venue, position_data, file, stop_event, pc, open_positions,
                 pending_orders, actions_to_perform, cycle_secured, market, log,
                 closeCount, pruned, need, atStop, lastWriter, sizing, conc,
                 caught, cancel_owed>>

InitTrade ==
  /\ InitProgram
  /\ sizing = NoSizing /\ conc = NoThreads /\ caught = 0 /\ trade \in TradeInputs
NextTrade ==
  \E tick \in {NoTick, [ok |-> TRUE, bid |-> 1, ask |-> 1],
               [ok |-> TRUE, bid |-> 2, ask |-> 2]},
     account_ok \in BOOLEAN, symbol_info \in TradeSymbolInfos,
     result \in Results(nextTicket) :
    ExecuteEntry(tick, account_ok, symbol_info, result)
SpecTrade == InitTrade /\ [][NextTrade]_vars

\* ------------------------------------- specification of the startup
\* the entries a stored snapshot can hold for ticket t
StoredEntries(t) ==
  LET o == OrderOf(t)
      e == NewEntry([ticket |-> t, account_login |-> o.login,
                     signal_data |-> Signals[o.group],
                     original_volume |-> LotSize(Signals[o.group]),
                     group_id |-> o.group])
  IN {[e EXCEPT !.closed_tps = c, !.is_secured = b] :
        c \in {<<>>, <<1>>, <<1, 2>>}, b \in BOOLEAN}

\* the snapshots _save_state can have written
Snapshots ==
  UNION {{pd \in [S -> UNION {StoredEntries(t) : t \in S}] :
            \A t \in S : pd[t] \in StoredEntries(t)} : S \in SUBSET Tickets}

\* the file the process finds at startup: a snapshot as written, or a file
\* damaged or replaced since
FoundFiles ==
  {NoFile}
  \cup {JsonDump(pd) : pd \in Snapshots}
  \cup {[kind |-> k, data |-> Empty] : k \in {"array", "invalid", "unreadable"}}
  \cup {[kind |-> "json",
         data |-> [k \in {<<Letter>>} \cup DOMAIN JsonDump(pd).data |->
                     IF k = <<Letter>> THEN e ELSE JsonDump(pd).data[k]]] :
          pd \in {x \in Snapshots : Cardinality(DOMAIN x) <= 1},
          e \in StoredEntries(FirstTicket)}

\* main(): PartialClosingManager([], ...) loads the state; an exception that
\* leaves _load_state leaves __init__ and main(), and the program ends
Startup ==
  /\ ~up /\ pc = "idle"
  /\ IF LoadRaises(file)
     THEN /\ pc' = "failed"
          /\ UNCHANGED <<up, position_data>>
     ELSE /\ up' = TRUE
          /\ position_data' = _load_state(file)
          /\ pc' = pc
  /\ UNCHANGED <<venue, nextTicket, registration_queue, file, stop_event,
                 open_positions, pending_orders, actions_to_perform,
                 cycle_secured, market, log, closeCount, pruned, need, atStop,
                 lastWriter, sizing, conc, caught, cancel_owed,
                 trade>>

InitLoad ==
  /\ up = FALSE
  /\ venue = [t \in Tickets |-> NoOrder]
  /\ nextTicket = FirstTicket
  /\ file \in FoundFiles
  /\ position_data = Empty
  /\ registration_queue = <<>>
  /\ stop_event = FALSE
  /\ pc = "idle"
  /\ open_positions = Empty
  /\ pending_orders = {}
  /\ actions_to_perform = <<>>
  /\ cycle_secured = {}
  /\ market = NoMarket
  /\ log = {}
  /\ closeCount = [k \in Tickets \X (1..2) |-> 0]
  /\ pruned = {}
  /\ need = [t \in Tickets |-> 0]
  /\ atStop = Empty
  /\ lastWriter = "none"
  /\ cancel_owed = {}
  /\ sizing = NoSizing /\ conc = NoThreads /\ caught = 0 /\ trade = NoTrade
NextLoad == Startup
SpecLoad == InitLoad /\ [][NextLoad]_vars

\* ===================================================== properties
\* Iteration ends are the states with pc = "sleep": every action of the
\* iteration has been executed, its snapshot and its log are still there.

LogHas(kind, t) == \E r \in log : r.kind = kind /\ r.ticket = t

\* the snapshot positions that are not managed once the queue is ingested
\* (pruning removes no ticket of the snapshot)
SnapshotGhosts == (DOMAIN open_positions) \ (DOMAIN position_data)

FullCloseIssued(t) ==
  [kind |-> "ghost", ticket |-> t, volume |-> open_positions[t].volume] \in log

Owed(t) ==
  /\ pc = "sleep"
  /\ need[t] = 2
  /\ t \in DOMAIN open_positions
  /\ t \in DOMAIN position_data

\* C2: once a position of a group triggers target 1, every open position of
\* the group has its stop-loss at its entry price and its secured flag true
\* by the end of the iteration after the triggering one.  Refuted: a
\* modification the venue rejects in the triggering iteration is never sent
\* again (C3).
C2_SecuredByNextIteration ==
  \A t \in Tickets :
    Owed(t) => position_data[t].is_secured /\ venue[t].sl = "entry"

\* ---------------------------------------------------------------- C3
\* C3: a position whose securing the venue rejected stays unsecured and has
\* the modification sent again in every later iteration in which it is open.
\* An owed securing that is still unsecured was sent in the triggering
\* iteration (every managed snapshot position of the group is a target of
\* _secure_trade_group) and rejected.  Refuted: target 1 is consumed, so no
\* later iteration plans the group's securing.
C3_SecureRetried ==
  \A t \in Tickets :
    Owed(t) /\ ~position_data[t].is_secured => LogHas("sltp", t)

\* ---------------------------------------------------------------- C4
\* C4: the secured flag of a managed ticket is false from registration, turns
\* true only by a stop-loss modification the venue confirmed for that ticket,
\* and never reverts while the ticket is managed.  The venue holds the stop at
\* entry from the confirmed modification on, the very step that sets the
\* flag, so the flag must be true exactly for the managed tickets whose stop
\* is at entry.  Refuted: the flag is set after the iteration's save and is
\* not written until a later change (C18); a restart in between loads it as
\* false again.
C4_FlagFollowsConfirmation ==
  \A t \in DOMAIN position_data :
    position_data[t].is_secured <=> venue[t].sl = "entry"

\* ---------------------------------------------------------------- C5
\* the venue still holds what this iteration's snapshot saw and nothing is
\* queued: the next iteration reads the same inputs
SnapshotStands ==
  /\ up /\ pc = "sleep"
  /\ registration_queue = <<>>
  /\ open_positions = [t \in VenueOpen |-> PositionOf(t)]
  /\ pending_orders = VenuePending

\* the locked block of the next iteration on the same snapshot and prices
Again ==
  Iteration(position_data, <<>>, open_positions, pending_orders, market)

NothingDone(it) ==
  /\ it.actions = <<>>
  /\ it.sent = {}
  /\ it.pd = position_data
  /\ ~it.state_changed

AfterCleanRestart == up /\ ~stop_event /\ lastWriter = "stop"

\* C6: ManagedState saved by stop() and loaded by the next process has, for
\* every ticket still open on the venue, the same ticket key, closed-target
\* list and secured flag as it had when stop() saved it.
C6_RestartDurable ==
  AfterCleanRestart =>
    \A t \in VenueOpen :
      /\ t \in DOMAIN position_data <=> t \in DOMAIN atStop
      /\ t \in DOMAIN atStop =>
           /\ position_data[t].closed_tps = atStop[t].closed_tps
           /\ position_data[t].is_secured = atStop[t].is_secured

C6_Witness ==
  /\ AfterCleanRestart
  /\ \E t \in VenueOpen :
        /\ t >= 10
        /\ t \in DOMAIN position_data
        /\ position_data[t].closed_tps # <<>>
        /\ position_data[t].is_secured

\* ---------------------------------------------------------------- C7
\* C7: after a crash and restart every order the engine had submitted and
\* that is still live on the venue is in ManagedState.  Every live order of
\* the venue was submitted by the engine of an earlier process.  Refuted: the
\* registration queue lives in memory only, so a registration that was
\* queued and not yet ingested is gone with the process.
C7_NoTradeLostOnRestart ==
  [][(~up /\ up') =>
       \A t \in Tickets :
         venue'[t].st \in {"open", "pending"} => t \in DOMAIN position_data']_vars

\* ---------------------------------------------------------------- C8
\* C8: once a managed ticket is pruned as absent from the snapshot, no close,
\* secure or cancel of this or a later iteration references it.  pruned holds
\* the tickets pruned by this process that the venue still holds.  Refuted: a
\* ticket registered after the snapshot was taken (C31) is ingested and
\* pruned in one iteration and force-closed as a ghost in the next.
C8_NoActionOnPruned ==
  \A t \in pruned :
    /\ \A r \in log : r.ticket # t
    /\ \A i \in 1..Len(actions_to_perform) : actions_to_perform[i].ticket # t

\* ---------------------------------------------------------------- C9
\* position t of the snapshot is managed, target 1 of it is not consumed and
\* the price served to the deciding step is in the buffer zone of target 1
InZone1(t) ==
  /\ t \in DOMAIN open_positions
  /\ t \in DOMAIN position_data'
  /\ ~(t \in DOMAIN position_data /\ 1 \in Range(position_data[t].closed_tps))
  /\ market'.info /\ market'.tick.ok
  /\ LET sig == position_data'[t].signal
     IN \/ /\ open_positions[t].type = "BUY"
           /\ market'.tick.ask >= sig.tps[1] - BufferPips * PipSize
        \/ /\ open_positions[t].type = "SELL"
           /\ market'.tick.bid <= sig.tps[1] + BufferPips * PipSize

Scheduled(type, t, g) ==
  {i \in 1..Len(actions_to_perform') :
     /\ actions_to_perform'[i].type = type
     /\ actions_to_perform'[i].ticket = t
     /\ actions_to_perform'[i].group_id = g}

\* C9: when positions of a group with no secured member are in the target-1
\* buffer zone, the iteration schedules exactly one partial close for each of
\* them and exactly one securing of the group, however many they are.
C9_OneClosePerHitOneSecurePerGroup ==
  [][pc = "locked" /\ pc' # "locked" =>
       \A g \in DOMAIN Signals :
         LET hit == {t \in Tickets : InZone1(t) /\ position_data'[t].group_id = g}
         IN hit # {} /\ g \notin SecuredGroups(position_data') =>
              /\ \A t \in hit : Cardinality(Scheduled("close", t, "")) = 1
              /\ Cardinality(Scheduled("secure_group", 0, g)) = 1]_vars

C9_Witness ==
  /\ pc = "apply"
  /\ Len(actions_to_perform) = 3
  /\ Cardinality({i \in 1..3 : actions_to_perform[i].type = "close"}) = 2
  /\ Cardinality({i \in 1..3 : actions_to_perform[i].type = "secure_group"}) = 1

\* --------------------------------------------------------------- C10
\* C10: for each ticket and target index at most one partial-close order is
\* ever submitted, rejected ones included, and a close that is scheduled has
\* its index recorded as consumed before it is sent.
C10_AtMostOnceClose ==
  /\ \A k \in DOMAIN closeCount : closeCount[k] <= 1
  /\ \A i \in 1..Len(actions_to_perform) :
       LET a == actions_to_perform[i]
       IN a.type = "close" /\ a.ticket \in DOMAIN position_data =>
            a.tp_num \in Range(position_data[a.ticket].closed_tps)

\* a close of target 1 was submitted and rejected (the volume is whole), and
\* a later iteration has decided with the price still at the target
C10_Witness ==
  /\ pc = "sleep"
  /\ market.info /\ market.tick.ok
  /\ \E t \in DOMAIN position_data :
        /\ t \in DOMAIN open_positions
        /\ closeCount[<<t, 1>>] = 1
        /\ ~LogHas("close", t)
        /\ open_positions[t].volume = position_data[t].original_volume
        /\ IsHit(open_positions[t].type, CurrentPrice(open_positions[t], market.tick),
                 position_data[t].signal.tps[1], BufferAmount(1, PipSize))
        /\ position_data[t].closed_tps = <<1>>

\* --------------------------------------------------------------- C11
IsPrefix(a, b) == Len(a) <= Len(b) /\ SubSeq(b, 1, Len(a)) = a
NoRepeat(a) == \A i, j \in 1..Len(a) : a[i] = a[j] => i = j

\* C11: while a ticket stays in ManagedState its list of triggered indices
\* only grows and never holds an index twice: every step of a running process
\* keeps the old list as a prefix of the new one, and the list the store holds
\* for a managed ticket is the list in memory, so that a restart loads it
\* unshortened.
C11_ClosedTpsOnlyGrow ==
  [][/\ up /\ up' =>
          \A t \in (DOMAIN position_data) \cap (DOMAIN position_data') :
            /\ IsPrefix(position_data[t].closed_tps, position_data'[t].closed_tps)
            /\ NoRepeat(position_data'[t].closed_tps)
     /\ up' =>
          \A t \in DOMAIN position_data' :
            /\ t \in DOMAIN LoadStateInt(file')
            /\ LoadStateInt(file')[t].closed_tps = position_data'[t].closed_tps]_vars

\* a ticket whose list grew twice and was loaded by a later process
C11_Witness ==
  /\ up /\ lastWriter = "stop" /\ ~stop_event
  /\ \E t \in DOMAIN position_data : position_data[t].closed_tps = <<1, 2>>

\* --------------------------------------------------------------- C12
QueuedTickets == {registration_queue[i].ticket : i \in 1..Len(registration_queue)}
SnapshotActive == (DOMAIN open_positions) \cup pending_orders

\* C12: a ticket is in ManagedState exactly when it was ingested from the
\* queue or loaded from the store and has not been pruned as absent from a
\* snapshot.  Only the locked block of an iteration changes the ticket set of
\* a running process, and it leaves exactly the tickets that were managed or
\* queued and are in its snapshot; the store holds the ticket set of memory,
\* and a new process starts with the ticket set of the store.
C12_ManagedIffRegisteredNotPruned ==
  [][/\ up /\ up' /\ ~(pc = "locked" /\ pc' # "locked") =>
          DOMAIN position_data' = DOMAIN position_data
     /\ up /\ up' /\ pc = "locked" /\ pc' # "locked" =>
          DOMAIN position_data' =
            ((DOMAIN position_data) \cup QueuedTickets) \cap SnapshotActive
     /\ up' => DOMAIN LoadStateInt(file') = DOMAIN position_data'
     /\ ~up /\ up' => DOMAIN position_data' = DOMAIN LoadStateInt(file)]_vars

\* an iteration end with one ticket managed and in the snapshot and another
\* one pruned
C12_Witness ==
  /\ up /\ pc = "sleep"
  /\ pruned # {}
  /\ \E t \in DOMAIN position_data : t \in DOMAIN open_positions /\ t \notin pruned

\* --------------------------------------------------------------- C13
\* the sizing call looked at succeeded
SizedCall == sizing.done /\ sizing.result.ok

\* C13: whenever sizing succeeds for a signal with N >= 1 targets, the
\* returned volume is N times one per-target share, the share is a multiple
\* of volume_step and at least volume_min, and the total is at most
\* volume_max.  Refuted: the clamp to volume_max and the final round(x, 2)
\* are applied to the total, after the shares were multiplied out.
C13_TotalIsNShares ==
  SizedCall /\ sizing.num_tps >= 1 =>
    /\ sizing.result.volume <= sizing.symbol_info.volume_max
    /\ \E share \in 0..sizing.symbol_info.volume_max :
         /\ share % sizing.symbol_info.volume_step = 0
         /\ share >= sizing.symbol_info.volume_min
         /\ sizing.result.volume = sizing.num_tps * share

\* --------------------------------------------------------------- C14
\* the documented outcome of a sizing call that cannot be made
SizingFails ==
  \/ ~sizing.account_ok
  \/ ~sizing.symbol_info.ok
  \/ sizing.sl_distance = 0
  \/ sizing.symbol_info.trade_tick_value <= 0
  \/ sizing.symbol_info.trade_tick_size <= 0

TargetCount == IF sizing.num_tps <= 0 THEN 1 ELSE sizing.num_tps
\* risk_amount / per_lot_risk / target count, as the fraction RawNum / RawDen
\* of volume units
RawNum ==
  sizing.balance * sizing.risk_percent * sizing.symbol_info.trade_tick_size
    * UnitsPerLot
RawDen ==
  Percent * sizing.sl_distance * sizing.symbol_info.trade_tick_value * TargetCount

\* the least multiple of volume_step that is no less than the raw share and
\* no less than floor
ShareRoundedUp(floor) ==
  LET step == sizing.symbol_info.volume_step
      top == (RawNum \div (RawDen * step)) + (floor \div step) + 1
      fits(k) == k * step * RawDen >= RawNum /\ k * step >= floor
  IN step * (CHOOSE k \in 0..top : fits(k) /\ \A j \in 0..top : fits(j) => k <= j)

Clamp(v) ==
  Max(sizing.symbol_info.volume_min, Min(sizing.symbol_info.volume_max, v))

\* the multiple of Cent nearest to v, the even one of two equally near
NearestCent(v) ==
  LET cands == {c \in (v - Cent)..(v + Cent) : c >= 0 /\ c % Cent = 0}
      dist(c) == IF c >= v THEN c - v ELSE v - c
      best == {c \in cands : \A d \in cands : dist(c) <= dist(d)}
  IN CHOOSE c \in best : Cardinality(best) = 1 \/ (c \div Cent) % 2 = 0

\* C14 as stated: calculate_lot_size returns the raw total divided by the
\* target count, each share rounded up to the volume step, re-multiplied by
\* the target count and clamped to [volume_min, volume_max].  Refuted: the
\* code raises each share to volume_min before rounding it up, and rounds
\* the result to two decimals.
C14_ReturnsClaimedVolume ==
  sizing.done =>
    sizing.result = IF SizingFails THEN NotSized
                    ELSE Sized(Clamp(ShareRoundedUp(0) * TargetCount))

\* C14, amended: each share is first raised to at least volume_min, then
\* rounded up to the volume step, re-multiplied by the target count, clamped
\* to [volume_min, volume_max], and the result is rounded to two decimals.
C14_ReturnsDocumentedVolume ==
  sizing.done =>
    sizing.result =
      IF SizingFails THEN NotSized
      ELSE Sized(NearestCent(Clamp(ShareRoundedUp(sizing.symbol_info.volume_min)
                                     * TargetCount)))

\* a raw share below volume_min for a signal of several targets, where the
\* claimed algorithm and the code part
C14_Witness ==
  /\ SizedCall
  /\ sizing.num_tps >= 2
  /\ 0 < RawNum /\ RawNum < sizing.symbol_info.volume_min * RawDen
  /\ sizing.result.volume # Clamp(ShareRoundedUp(0) * TargetCount)
  /\ sizing.result.volume < sizing.symbol_info.volume_max

\* the threads with a venue mutation call in progress on account l
Mutating(l) ==
  {th \in Threads : conc.wire[th].login = l /\ Mutation(conc.wire[th].call)}

\* thread th is about to take the lock of account l
WaitsFor(th, l) ==
  conc.prog[th] # <<>> /\ Head(conc.prog[th]) = Acquire(l)

\* C15: within one account no two venue mutation calls (engine submission,
\* controller secure, cancel, partial close, ghost close) are in progress at
\* the same time; a call in progress is made by the holder of the account's
\* lock, so a submission and a corrective action exclude each other.
C15_OneMutationPerAccount ==
  \A l \in Logins :
    /\ Cardinality(Mutating(l)) <= 1
    /\ \A th \in Mutating(l) : conc.lock[l] = th

\* an engine submission is in progress on an account while the controller
\* waits for that account's lock to send a corrective action
C15_Witness ==
  \E l \in Logins :
    /\ Mutating(l) = {EngineThread(l)}
    /\ WaitsFor("run", l)
    /\ Len(conc.prog["run"]) >= 2
    /\ Mutation(conc.prog["run"][2].call)

\* C16: every venue call made for an account, queries included, is made
\* while the calling thread holds that account's lock.
C16_EveryCallUnderAccountLock ==
  \A th \in Threads :
    conc.wire[th] # NoCall => conc.lock[conc.wire[th].login] = th

\* C17: the controller never holds the ManagedState lock (self.lock) while
\* a venue mutation call of its own is in progress.
C17_NoMutationUnderStateLock ==
  \A th \in Threads :
    Mutation(conc.wire[th].call) => conc.self_lock.owner # th

\* the block under self.lock, as the step that is leaving it computes it
ThisIteration ==
  Iteration(position_data, registration_queue, open_positions, pending_orders,
            market')

\* the block ingests a ticket, prunes one or consumes a target
BlockMutates ==
  \/ ThisIteration.ingested # position_data
  \/ ThisIteration.pruned # {}
  \/ \E t \in DOMAIN ThisIteration.pd :
       ThisIteration.pd[t] # ThisIteration.ingested[t]

\* the step that ends an iteration: the block when it schedules nothing, the
\* last scheduled action otherwise (an action is scheduled only with a target
\* consumed, so such an iteration has mutated ManagedState)
EndsIteration == up /\ up' /\ pc \in {"locked", "apply"} /\ pc' = "sleep"

\* C18: at the end of every iteration that mutated ManagedState (ingest,
\* prune, target consumed, secured flag flipped) the file holds exactly
\* ManagedState; the block of an iteration that mutates nothing leaves the
\* file alone.
C18_StoreEqualsStateAfterMutation ==
  [][/\ EndsIteration /\ (pc = "apply" \/ BlockMutates) =>
          /\ file'.kind = "json"
          /\ LoadStateInt(file') = position_data'
     /\ up /\ up' /\ pc = "locked" /\ pc' # "locked" /\ ~BlockMutates =>
          file' = file]_vars

\* how far run() is from its exit once the stop flag is set: the block
\* schedules at most a close and a secure_group per position
StepsToExit ==
  CASE pc = "orders" -> 2 * MaxTickets + 4
    [] pc = "locked" -> 2 * MaxTickets + 3
    [] pc = "apply" -> Len(actions_to_perform) + 2
    [] pc = "sleep" -> 2
    [] pc = "idle" -> 1
    [] OTHER -> 0

\* C19: the loop exits only after a shutdown was requested; once stop() has
\* set the flag the loop starts no new iteration, every step it takes brings
\* it nearer to its exit and it is never stuck before it; stop() itself
\* performs one save of ManagedState.
C19_ExitsOnlyOnStopThenTerminates ==
  [][/\ up /\ up' /\ pc # "done" /\ pc' = "done" => stop_event
     /\ up /\ up' /\ stop_event /\ stop_event' =>
          /\ ~(pc = "idle" /\ pc' = "orders")
          /\ pc = "done" => pc' = "done"
          /\ <<pc, actions_to_perform>>' # <<pc, actions_to_perform>> =>
               StepsToExit' < StepsToExit
          /\ pc' = "apply" => actions_to_perform' # <<>>
     /\ up /\ ~stop_event /\ stop_event' =>
          /\ up' /\ pc' = pc
          /\ file'.kind = "json"
          /\ LoadStateInt(file') = position_data]_vars

\* stop() was called in the middle of an iteration of a controller that
\* manages a trade, and the loop has ended after finishing that iteration
C19_Witness ==
  /\ up /\ stop_event /\ pc = "done"
  /\ position_data # Empty
  /\ lastWriter = "run"

\* C20: a failure raised at any step of an iteration (snapshot, ingest,
\* prune, decide, apply) is caught: the loop is not left, the file and the
\* stop flag are untouched and the interval follows; after the interval the
\* loop is at its test again, where an iteration starts unless stop() was
\* called, and only then is the loop left.
C20_FailureCaughtLoopContinues ==
  [][/\ caught' > caught =>
          /\ up' /\ pc' = "sleep"
          /\ file' = file /\ stop_event' = stop_event
     /\ up /\ up' /\ pc = "sleep" /\ pc' # pc => pc' = "idle"
     /\ up /\ up' /\ pc = "idle" /\ pc' # pc =>
          IF stop_event THEN pc' = "done" ELSE pc' \in {"orders", "sleep"}
     /\ up /\ up' /\ pc' = "done" => pc = "done" \/ (pc = "idle" /\ stop_event)]_vars

\* after a failure in the block under self.lock, raised once a registration
\* was ingested (the entry is in memory, not in the file), the interval has
\* passed and the next iteration has taken its snapshots
C20_Witness ==
  /\ caught > 0 /\ up /\ pc = "locked" /\ ~stop_event
  /\ position_data # Empty
  /\ file = NoFile

\* the file holds a JSON object whose keys are all integers
WellFormed(f) == f.kind = "json" /\ \A k \in DOMAIN f.data : IsIntKey(k)

\* the startup has run
Started == up \/ pc = "failed"

\* C21: loading the store at startup never fails the program: a missing,
\* malformed or unreadable file yields an empty ManagedState, any other file
\* exactly the stored snapshot keyed by integer ticket.
C21_LoadNeverFails ==
  Started =>
    /\ up
    /\ position_data =
         IF WellFormed(file)
         THEN [t \in {StrToInt(k) : k \in DOMAIN file.data} |->
                 file.data[IntToStr(t)]]
         ELSE Empty

\* a call of execute_trade is looked at
Trading == trade.i > 0

Failed(d) == d.outcome \in {"no_tick", "no_volume", "rejected", "invalid"}

\* C22: within execute_trade an entry that fails (sizing fails, or the venue
\* rejects the order) is attempted once only and the entries after it are
\* still attempted, in list order: after any number of passes the attempts
\* made are exactly the entries 1..k, one attempt each, and entry k + 1 is
\* the next.
C22_FailedEntryNotRetriedRestProceeds ==
  Trading =>
    /\ \A j \in 1..Len(trade.done) : trade.done[j].index = j
    /\ trade.i = Len(trade.done) + 1
    /\ trade.i <= Len(trade.entries) + 1

\* an entry whose sizing failed and an entry the venue rejected, each
\* followed by an entry that was accepted
C22_Witness ==
  /\ Trading
  /\ \E a, b, c \in 1..Len(trade.done) :
       /\ a < c /\ b < c
       /\ trade.done[a].outcome = "no_volume"
       /\ trade.done[b].outcome = "rejected"
       /\ trade.done[c].outcome = "accepted"

\* the attempts the venue confirmed, in the order they were made
Confirmed ==
  SelectSeq(trade.done,
            LAMBDA d : d.request # NoRequest /\ d.result.retcode = "done")

\* C23: a registration event is on the queue if and only if the venue
\* confirmed the acceptance of a submitted order: one event per accepted
\* order, in order, with its ticket, the account login, the signal, the
\* volume submitted and the group id; a rejected or aborted entry queues
\* nothing.
C23_OneRegistrationPerAcceptedOrder ==
  Trading =>
    /\ Len(registration_queue) = Len(Confirmed)
    /\ \A j \in 1..Len(Confirmed) :
         registration_queue[j] =
           [ticket |-> Confirmed[j].result.order,
            account_login |-> trade.login,
            signal_data |-> trade.signal,
            original_volume |-> Confirmed[j].request.volume,
            group_id |-> trade.signal.group_id]

\* of three entries the accepted one is registered, the one the venue
\* rejected and the one aborted before it was sent are not
C23_Witness ==
  /\ Trading
  /\ Len(registration_queue) = 1
  /\ \E a, b \in 1..Len(trade.done) :
       /\ trade.done[a].outcome = "rejected"
       /\ trade.done[b].request = NoRequest
  /\ Len(trade.done) = 3

Engines == {EngineThread(l) : l \in Logins}

\* thread th can run to its end with no other thread taking a step: every
\* lock it has still to take is free (or, for self.lock, its own)
CanFinish(th) ==
  \A i \in 1..Len(conc.prog[th]) :
    conc.prog[th][i].op = "acquire" =>
      IF conc.prog[th][i].login = SelfLock
      THEN conc.self_lock.owner \in {"free", th}
      ELSE conc.lock[conc.prog[th][i].login] = "free"

\* C24 as stated: an engine call runs to completion while the controller is
\* anywhere in its iteration holding the ManagedState lock.
C24_EngineCompletesUnderStateLock ==
  conc.self_lock.owner = "run" => \A e \in Engines : CanFinish(e)

\* C24: execute_trade never takes the ManagedState lock and its put never
\* waits, so an engine call never waits for the ManagedState lock; the one
\* lock it can wait for is its account's lock, held by the controller.
C24_EngineWaitsOnlyForAccountLock ==
  \A l \in Logins :
    LET e == EngineThread(l)
    IN /\ conc.self_lock.owner # e
       /\ \A i \in 1..Len(conc.prog[e]) : conc.prog[e][i] # Acquire(SelfLock)
       /\ ~CanFinish(e) =>
            /\ Head(conc.prog[e]) = Acquire(l)
            /\ conc.lock[l] = "run"

\* the controller holds the ManagedState lock and no account lock while an
\* engine call sends its order, and that call is free to finish
C24_Witness ==
  \E l \in Logins :
    /\ conc.self_lock.owner = "run"
    /\ conc.wire[EngineThread(l)] = VenueCall(l, "order_send")
    /\ CanFinish(EngineThread(l))
    /\ \E i \in 1..Len(conc.prog[EngineThread(l)]) :
         conc.prog[EngineThread(l)][i] = QueuePut(l)

\* ---------------------------------------------------------------- C25
\* C25: a cancel the venue rejected is sent again in the next iteration.
\* cancel_owed holds the orders whose removal was sent by
\* _cancel_pending_orders_for_group and rejected and that are pending at the
\* venue ever since; at the end of an iteration whose snapshot has such an
\* order under management, the iteration has sent its removal.  Refuted: the
\* cancels are sent only by a secure_group action, which is planned only on a
\* fresh hit of target 1.
C25_RejectedCancelRetried ==
  up /\ pc = "sleep" =>
    \A t \in cancel_owed :
      t \in pending_orders /\ t \in DOMAIN position_data => LogHas("remove", t)

\* ------------------------------- one locked block on bounded inputs
\* a signal whose targets are not in order of distance
Unordered ==
  [group_id |-> "G3", direction |-> "BUY", tps |-> <<3, 0>>, num_tps |-> 2,
   price |-> 1]
DecideSignals == {Signals.G1, Signals.G2, Unordered}

\* the lists of triggered indices _decide_on_position_actions can have built
\* for a signal: one index per iteration, for targets in order always the
\* nearest untriggered one
ConsumedLists(signal) ==
  IF signal = Unordered THEN {<<>>, <<1>>, <<2>>, <<1, 2>>, <<2, 1>>}
  ELSE {<<>>, <<1>>, <<1, 2>>}

\* a managed open position: what the venue holds and the ManagedState entry
ManagedPositions ==
  {[order |-> [st |-> "open", volume |-> LotSize(sg), sl |-> "orig", login |-> l,
               type |-> sg.direction, price_open |-> sg.price,
               group |-> sg.group_id],
    entry |-> [account_login |-> l, signal |-> sg, original_volume |-> LotSize(sg),
               closed_tps |-> c, is_secured |-> FALSE, group_id |-> sg.group_id,
               pending_close_volume |-> 0]] :
     sg \in DecideSignals, l \in {Handlers[1]}, c \in UNION {ConsumedLists(x) : x \in DecideSignals}}

DecideInputs ==
  {f \in [Tickets -> ManagedPositions] :
     \A t \in Tickets : f[t].entry.closed_tps \in ConsumedLists(f[t].entry.signal)}

\* the controller is about to enter its locked block with every ticket a
\* managed open position of its snapshot
InitDecide ==
  /\ \E f \in DecideInputs :
       /\ venue = [t \in Tickets |-> f[t].order]
       /\ position_data = [t \in Tickets |-> f[t].entry]
       /\ file = _save_state([t \in Tickets |-> f[t].entry])
  /\ open_positions = [t \in VenueOpen |-> PositionOf(t)]
  /\ up = TRUE
  /\ nextTicket = FirstTicket + MaxTickets
  /\ registration_queue = <<>>
  /\ stop_event = FALSE
  /\ pc = "locked"
  /\ pending_orders = {}
  /\ actions_to_perform = <<>>
  /\ cycle_secured = {}
  /\ market = NoMarket
  /\ log = {}
  /\ closeCount = [k \in Tickets \X (1..2) |-> 0]
  /\ pruned = {}
  /\ need = [t \in Tickets |-> 0]
  /\ atStop = Empty
  /\ lastWriter = "run"
  /\ cancel_owed = {}
  /\ sizing = NoSizing /\ conc = NoThreads /\ caught = 0 /\ trade = NoTrade

Decide ==
  \E info \in BOOLEAN, tick \in Ticks :
    /\ info \/ tick = NoTick
    /\ LockedPhase([info |-> info, tick |-> tick], {})
NextDecide == Decide
SpecDecide == InitDecide /\ [][NextDecide]_vars

\* ------------------------------------------------------- C26, C27, C28
\* the step in which a running controller executes its locked block
Decides == up /\ up' /\ pc = "locked" /\ pc' # "locked"

\* the triggered indices of ticket t when the decision of this step starts
ConsumedBefore(t) == Range(ThisIteration.ingested[t].closed_tps)
\* the indices of ticket t this step consumes
NewlyConsumed(t) == Range(position_data'[t].closed_tps) \ ConsumedBefore(t)
\* the partial closes this step schedules for ticket t
ClosesScheduled(t) ==
  {i \in 1..Len(actions_to_perform') :
     actions_to_perform'[i].type = "close" /\ actions_to_perform'[i].ticket = t}

\* the decision looks at ticket t: it is an open position of the snapshot and
\* the venue answers the instrument and price queries
Evaluated(t) == t \in DOMAIN open_positions /\ market'.info /\ market'.tick.ok

\* the hit condition as the claim words it, on the snapshot's side and the
\* reference price of this step
BufferOf(k) == IF k = 1 THEN BufferPips * PipSize ELSE 0
ReferencePrice(t) ==
  IF open_positions[t].type = "BUY" THEN market'.tick.ask ELSE market'.tick.bid
TargetReached(t, k) ==
  LET target == position_data'[t].signal.tps[k]
  IN IF open_positions[t].type = "BUY"
     THEN ReferencePrice(t) >= target - BufferOf(k)
     ELSE ReferencePrice(t) <= target + BufferOf(k)
\* the untriggered targets of ticket t the price has reached
ReachedTargets(t) ==
  IF ~Evaluated(t) THEN {}
  ELSE {k \in 1..Len(position_data'[t].signal.tps) :
          k \notin ConsumedBefore(t) /\ TargetReached(t, k)}

\* C26: an iteration consumes at most one target index and schedules at most
\* one partial close per position, one close for each index consumed; with
\* the price beyond several untriggered targets it consumes exactly one, and
\* the others stay untriggered for the iterations that follow.
C26_OneTargetPerPositionPerIteration ==
  [][Decides =>
       \A t \in DOMAIN position_data' :
         /\ Cardinality(NewlyConsumed(t)) <= 1
         /\ Len(position_data'[t].closed_tps)
              = Len(ThisIteration.ingested[t].closed_tps) + Cardinality(NewlyConsumed(t))
         /\ Cardinality(ClosesScheduled(t)) = Cardinality(NewlyConsumed(t))
         /\ Cardinality(ReachedTargets(t)) >= 2 =>
              Cardinality(NewlyConsumed(t)) = 1]_vars

\* the price is beyond both targets of a position, and the iteration has
\* consumed the first of them only
C26_Witness ==
  /\ up /\ pc = "apply"
  /\ market.info /\ market.tick.ok
  /\ \E t \in (DOMAIN position_data) \cap (DOMAIN open_positions) :
       /\ position_data[t].closed_tps = <<1>>
       /\ \E i \in 1..Len(actions_to_perform) :
            actions_to_perform[i] = CloseAction(open_positions[t],
                                                VolumePerTp(position_data[t]), 1)
       /\ \A k \in 1..2 :
            IsHit(open_positions[t].type, CurrentPrice(open_positions[t], market.tick),
                  position_data[t].signal.tps[k], 0)

\* C27: an index is consumed only if its target is reached, long:
\* price >= target - buffer, short: price <= target + buffer, the buffer being
\* pips x pip size for index 1 and zero for the others; and when an
\* untriggered target of an evaluated position is reached, the iteration
\* consumes one.
C27_HitIffPriceWithinBuffer ==
  [][Decides =>
       \A t \in DOMAIN position_data' :
         /\ \A k \in NewlyConsumed(t) : Evaluated(t) /\ TargetReached(t, k)
         /\ ReachedTargets(t) # {} => NewlyConsumed(t) # {}]_vars

\* a short position whose price is inside the buffer above target 1 has the
\* target consumed, and a long one at the price just below its target 2 has
\* nothing consumed
C27_Witness ==
  /\ up /\ pc = "apply"
  /\ market.info /\ market.tick.ok
  /\ \E t \in DOMAIN position_data :
       /\ open_positions[t].type = "SELL"
       /\ market.tick.bid = position_data[t].signal.tps[1] + BufferPips * PipSize
       /\ \E i \in 1..Len(actions_to_perform) :
            actions_to_perform[i].ticket = t /\ actions_to_perform[i].tp_num = 1
  /\ \E t \in DOMAIN position_data :
       /\ open_positions[t].type = "BUY"
       /\ position_data[t].closed_tps = <<1>>
       /\ market.tick.ask = position_data[t].signal.tps[2] - 1
       /\ \A i \in 1..Len(actions_to_perform) : actions_to_perform[i].ticket # t

\* the signals of the model are monotonic: targets ascend for a long signal
\* and descend for a short one
Monotonic(signal) ==
  \A i, j \in 1..Len(signal.tps) :
    i < j => IF signal.direction = "BUY" THEN signal.tps[i] < signal.tps[j]
             ELSE signal.tps[i] > signal.tps[j]

\* C28: the index an iteration consumes is the lowest untriggered index whose
\* target is reached, and for a monotonic signal the consumed indices are
\* 1..k in this order.
C28_LowestHitConsumedPrefix ==
  [][/\ Decides =>
          \A t \in DOMAIN position_data' :
            \A k \in NewlyConsumed(t) : \A j \in ReachedTargets(t) : k <= j
     /\ up' =>
          \A t \in DOMAIN position_data' :
            Monotonic(position_data'[t].signal) =>
              \A i \in 1..Len(position_data'[t].closed_tps) :
                position_data'[t].closed_tps[i] = i]_vars

\* with the price beyond both targets of a short position the iteration
\* consumed index 1, and for a position with targets out of order it consumed
\* index 2, the lowest one reached
C28_Witness ==
  /\ up /\ pc = "apply"
  /\ market.info /\ market.tick.ok
  /\ \E t \in DOMAIN position_data :
       /\ open_positions[t].type = "SELL"
       /\ Monotonic(position_data[t].signal)
       /\ position_data[t].closed_tps = <<1>>
       /\ \A k \in 1..2 : market.tick.bid <= position_data[t].signal.tps[k]
       /\ \E i \in 1..Len(actions_to_perform) :
            actions_to_perform[i].ticket = t /\ actions_to_perform[i].tp_num = 1
  /\ \E t \in DOMAIN position_data :
       /\ ~Monotonic(position_data[t].signal)
       /\ position_data[t].closed_tps = <<2>>
       /\ \E i \in 1..Len(actions_to_perform) :
            actions_to_perform[i].ticket = t /\ actions_to_perform[i].tp_num = 2

\* ---------------------------------------------------------------- C29
\* C29: the partial close scheduled on a hit has volume
\* original_volume / target_count, whichever index was hit: target_count
\* closes of that volume make up the volume the position was registered with.
\* Refuted: line 184 rounds the quotient to hundredths of a lot, and the
\* volume the sizing returns is not always a whole number of shares (C13).
C29_CloseIsOriginalOverCount ==
  SizedCall =>
    \A i \in 1..Len(actions_to_perform) :
      actions_to_perform[i].type = "close" =>
        actions_to_perform[i].volume * sizing.num_tps = sizing.result.volume \div Cent

\* ---------------------------------------------------------------- C30
\* the ManagedTicket the claim describes for a registration event
ManagedTicketFor(event) ==
  [account_login |-> event.account_login, signal |-> event.signal_data,
   original_volume |-> event.original_volume, closed_tps |-> <<>>,
   is_secured |-> FALSE, group_id |-> event.group_id, pending_close_volume |-> 0]

\* the controller steps from the current one to the next ingest
StepsToIngest ==
  CASE pc = "apply" -> Len(actions_to_perform) + 4
    [] pc = "sleep" -> 4
    [] pc = "idle" -> 3
    [] pc = "orders" -> 2
    [] pc = "locked" -> 1
    [] OTHER -> 0

\* What holds of the ingest: the ingest step of an iteration turns every
\* event of the queue into a ManagedTicket with no triggered index, secured
\* flag false and pending-close volume 0, keeps the other entries and leaves
\* the queue empty; no other step of a running process takes an event out of
\* the queue or reorders it; and while no shutdown is requested every step of
\* the controller with an event waiting is the ingest or brings the controller
\* nearer to it.
IngestDrainsQueueOnce ==
  [][/\ Decides =>
          /\ registration_queue' = <<>>
          /\ DOMAIN ThisIteration.ingested = (DOMAIN position_data) \cup QueuedTickets
          /\ \A i \in 1..Len(registration_queue) :
               ThisIteration.ingested[registration_queue[i].ticket]
                 = ManagedTicketFor(registration_queue[i])
          /\ \A t \in (DOMAIN position_data) \ QueuedTickets :
               ThisIteration.ingested[t] = position_data[t]
     /\ up /\ up' /\ ~Decides => IsPrefix(registration_queue, registration_queue')
     /\ /\ up /\ up' /\ ~stop_event' /\ ~Decides
        /\ registration_queue # <<>>
        /\ <<pc, actions_to_perform>>' # <<pc, actions_to_perform>>
        => /\ StepsToIngest' < StepsToIngest
           /\ pc' = "apply" => actions_to_perform' # <<>>]_vars

\* two events were waiting when the iteration started and both tickets are
\* managed after its locked block, each with the entry of its event
IngestDrains_Witness ==
  /\ up /\ pc \in {"apply", "sleep"}
  /\ registration_queue = <<>>
  /\ lastWriter = "run"
  /\ DOMAIN position_data = Tickets
  /\ \A t \in Tickets : ~position_data[t].is_secured
  /\ \E t \in Tickets :
       position_data[t] =
         ManagedTicketFor([ticket |-> t, account_login |-> OrderOf(t).login,
                           signal_data |-> Signals[OrderOf(t).group],
                           original_volume |-> LotSize(Signals[OrderOf(t).group]),
                           group_id |-> OrderOf(t).group])
  /\ \A t \in Tickets : closeCount[<<t, 1>>] = 0

\* C30: every registration event the engine enqueued is eventually ingested
\* by the controller: once the controller's loop has ended, no event is left
\* in the queue.  Refuted: stop() sets the flag and saves without draining
\* the queue, and the loop ends at its next test; an event enqueued since the
\* last ingest is never ingested (the loss C7 describes for a crash).
C30_EveryEventIngested ==
  up /\ pc = "done" => registration_queue = <<>>

\* ---------------------------------------------------------------- C31
\* C31: an order the engine submitted and registered is never pruned while
\* it is live on the venue: every ticket that is managed or waiting in the
\* queue when the locked block runs, and that the venue holds open or
\* pending, is managed after the block.  Refuted: the block prunes by the
\* snapshot taken before it, so an order accepted and registered between the
\* snapshot and the ingest is ingested and pruned in the same block; the next
\* iteration finds its position unmanaged and closes it as a ghost (C8).
C31_RegisteredLiveNeverPruned ==
  [][Decides =>
       \A t \in (DOMAIN position_data) \cup QueuedTickets :
         Live(t) => t \in DOMAIN position_data']_vars

\* ------------------------------ snapshot queries the venue fails to answer
\* mt5.positions_get / mt5.orders_get return None for a handler whose query
\* fails; `if positions:` / `if orders:` then adds nothing for that handler,
\* exactly as for an account with nothing open.  answered is the set of
\* handlers whose query returns its list.
PositionsAnswered(answered) ==
  [t \in {u \in VenueOpen : venue[u].login \in answered} |-> PositionOf(t)]
OrdersAnswered(answered) == {t \in VenuePending : venue[t].login \in answered}

FailedPositionsQuery(answered) ==
  /\ up /\ pc = "idle" /\ LoopTest(stop_event)
  /\ open_positions' = PositionsAnswered(answered)
  /\ pc' = "orders"
  /\ atStop' = Empty
  /\ lastWriter' = IF lastWriter = "stop" THEN "none" ELSE lastWriter
  /\ UNCHANGED <<up, venue, nextTicket, position_data, registration_queue, file,
                 stop_event, pending_orders, actions_to_perform, cycle_secured,
                 market, log, closeCount, pruned, need, sizing, conc,
                 caught, cancel_owed, trade>>

FailedOrdersQuery(answered) ==
  /\ up /\ pc = "orders"
  /\ pending_orders' = OrdersAnswered(answered)
  /\ pc' = "locked"
  /\ cancel_owed' = cancel_owed \cap VenuePending
  /\ UNCHANGED <<up, venue, nextTicket, position_data, registration_queue, file,
                 stop_event, open_positions, actions_to_perform, cycle_secured,
                 market, log, closeCount, pruned, need, atStop,
                 lastWriter, sizing, conc, caught, trade>>

FailedQuery ==
  \/ \E answered \in (SUBSET Logins) \ {Logins} : FailedPositionsQuery(answered)
  \/ \E answered \in (SUBSET Logins) \ {Logins} : FailedOrdersQuery(answered)

NextQuery ==
  \/ Engine
  \/ Venue
  \/ Controller
  \/ Stop
  \/ FailedQuery
SpecQuery == Init /\ [][NextQuery]_vars

\* ---------------------------------------------------------------- C32
\* a managed position that entered the venue as a market order: it has been
\* an open position ever since it was accepted
OpenSinceAccepted(t) ==
  /\ t \in DOMAIN position_data
  /\ venue[t].st = "open"
  /\ OrderOf(t).entry = "MARKET"

\* C32: a snapshot query that fails or returns nothing does not remove the
\* account's live managed tickets: a managed ticket that has been an open
\* position on the venue since before the iteration is managed after the
\* locked block, whatever the queries returned.  Refuted: an unanswered query
\* leaves the account's tickets out of the snapshot and the prune removes
\* them.
C32_FailedQueryKeepsLiveTickets ==
  [][Decides => \A t \in Tickets : OpenSinceAccepted(t) => t \in DOMAIN position_data']_vars

\* ---------------------------------------------------------------- C33
\* the managed open positions of group g whose secured flag is false when
\* the decision of this step is taken
UnsecuredMembers(g) ==
  {u \in (DOMAIN position_data') \cap (DOMAIN open_positions) :
     /\ position_data'[u].group_id = g
     /\ ~ThisIteration.ingested[u].is_secured}

\* C33: the securing of a group is suppressed as already secured only when
\* every managed open position of the group has its flag true: when target 1
\* of a position is consumed and its group has an unsecured managed open
\* position, the iteration schedules a securing of the group.  Refuted:
\* secured_groups holds every group with at least one secured member.
C33_SuppressedOnlyWhenAllSecured ==
  [][Decides =>
       \A t \in DOMAIN position_data' :
         1 \in NewlyConsumed(t) /\ UnsecuredMembers(position_data'[t].group_id) # {} =>
           Scheduled("secure_group", 0, position_data'[t].group_id) # {}]_vars

\* ---------------------------------------------------------------- C34
\* what the next process would load for ticket t
Persisted(t) == LoadStateInt(file)[t]

\* C34: no (ticket, target index) pair has a partial close submitted twice,
\* a restart in between or not, because the consumed index is in the store
\* before the close is applied: the store holds the index of every close
\* that waits to be applied and of every close that was submitted, for the
\* tickets it holds.  (closeCount is the venue's count and outlives the
\* process.)
C34_NoCloseRepeatedAcrossRestart ==
  /\ \A key \in DOMAIN closeCount : closeCount[key] <= 1
  /\ \A key \in DOMAIN closeCount :
       closeCount[key] >= 1 /\ key[1] \in DOMAIN LoadStateInt(file) =>
         key[2] \in Range(Persisted(key[1]).closed_tps)
  /\ up =>
       \A i \in 1..Len(actions_to_perform) :
         LET a == actions_to_perform[i]
         IN a.type = "close" /\ a.ticket \in DOMAIN LoadStateInt(file) =>
              a.tp_num \in Range(Persisted(a.ticket).closed_tps)

\* a process started after the previous one was killed or shut down has
\* loaded a ticket whose close of target 1 was submitted by the previous
\* process, and has ended an iteration
\* with the price at that target without a close
C34_Witness ==
  /\ up /\ pc = "sleep" /\ lastWriter = "none"
  /\ market.info /\ market.tick.ok
  /\ \E t \in (DOMAIN position_data) \cap (DOMAIN open_positions) :
       /\ closeCount[<<t, 1>>] = 1
       /\ position_data[t].closed_tps = <<1>>
       /\ IsHit(open_positions[t].type, CurrentPrice(open_positions[t], market.tick),
                position_data[t].signal.tps[1], BufferAmount(1, PipSize))
       /\ ~LogHas("close", t)

\* ---------------------------------------------------------------- C35
\* C35: a close that was decided (its index is consumed and its action is
\* in the list) is submitted to the venue in the same iteration: the step
\* that applies a close action sends a close order for its ticket.  Refuted:
\* _close_partial returns without sending when symbol_info does not answer
\* (lines 283-286), and the index stays consumed.
C35_DecidedCloseIsSubmitted ==
  [][/\ up /\ up' /\ pc = "apply"
     /\ actions_to_perform # <<>>
     /\ Head(actions_to_perform).type = "close"
     /\ actions_to_perform' = Tail(actions_to_perform)
     => LogHas("close", Head(actions_to_perform).ticket)']_vars

\* ---------------------------------------------------------------- C36
\* thread th is at an acquire it cannot take: an account lock that is held
\* (handler.lock is not re-entrant), or self.lock held by another thread
Blocked(th) ==
  /\ conc.prog[th] # <<>>
  /\ Head(conc.prog[th]).op = "acquire"
  /\ IF Head(conc.prog[th]).login = SelfLock
     THEN conc.self_lock.owner \notin {"free", th}
     ELSE conc.lock[Head(conc.prog[th]).login] # "free"

\* the thread that holds the lock a blocked thread waits for
Holder(th) ==
  IF Head(conc.prog[th]).login = SelfLock THEN conc.self_lock.owner
  ELSE conc.lock[Head(conc.prog[th]).login]

\* following the holders from th for at most n waits leads to a thread that
\* has a step to take
RECURSIVE LeadsToRunnable(_, _)
LeadsToRunnable(th, n) ==
  IF ~Blocked(th) THEN conc.prog[th] # <<>>
  ELSE n > 0 /\ LeadsToRunnable(Holder(th), n - 1)

\* C36: no reachable state is a deadlock of the controller, the engine
\* threads and the shutdown caller: every thread that has not finished can
\* take a step, or waits for a lock at the end of a chain of holders of
\* which the last can take a step; no wait leads back to a waiting thread.
C36_NoLockCycle ==
  \A th \in Threads :
    conc.prog[th] # <<>> => LeadsToRunnable(th, Cardinality(Threads) - 1)

\* the shutdown caller waits for the ManagedState lock, held by the
\* controller, which waits inside its locked block for the account lock an
\* engine call holds; the engine call is in a venue call
C36_Witness ==
  \E l \in Logins :
    /\ Blocked("main") /\ Holder("main") = "run"
    /\ Blocked("run") /\ Holder("run") = EngineThread(l)
    /\ conc.self_lock.owner = "run"
    /\ conc.wire[EngineThread(l)] # NoCall

\* ---------------------------------------------------------------- C37
\* C37: once stop() has returned and the controller has finished the
\* iteration it was in, the store holds exactly ManagedState.  Refuted: an
\* iteration that stop() interrupts can still set a secured flag in
\* _secure_position, after its own save and after the save of stop(), and the
\* loop then ends without another save (C18).
C37_StoreEqualsStateAfterShutdown ==
  up /\ stop_event /\ pc = "done" => LoadStateInt(file) = position_data

\* ---------------------------------------------------------------- C38
\* ticket t is managed and an open position of this iteration's snapshot
ManagedSnapshotPosition(t) ==
  t \in DOMAIN position_data /\ t \in DOMAIN open_positions

\* C38: every partial close scheduled, and every partial close and stop-loss
\* modification sent in an iteration, is for a managed ticket that is an open
\* position of the iteration's snapshot and not a pending order at the venue;
\* every cancel sent is for a managed order of the pending snapshot whose
\* group is secured in this iteration.
C38_ActionsTargetManagedSnapshot ==
  up =>
    /\ \A i \in 1..Len(actions_to_perform) :
         actions_to_perform[i].type = "close" =>
           ManagedSnapshotPosition(actions_to_perform[i].ticket)
    /\ \A r \in log :
         /\ r.kind \in {"close", "sltp"} =>
              ManagedSnapshotPosition(r.ticket) /\ venue[r.ticket].st # "pending"
         /\ r.kind = "remove" =>
              /\ r.ticket \in DOMAIN position_data
              /\ r.ticket \in pending_orders
              /\ position_data[r.ticket].group_id \in cycle_secured

\* an iteration has sent a partial close and a stop-loss modification for a
\* position and a cancel for the pending order of its group, which is still
\* pending
C38_Witness ==
  /\ up /\ pc = "sleep"
  /\ \E t, u \in DOMAIN position_data :
       /\ LogHas("close", t) /\ LogHas("sltp", t)
       /\ LogHas("remove", u) /\ venue[u].st = "pending"
       /\ position_data[u].group_id = position_data[t].group_id

\* ---------------------------------------------------------------- C39
\* bounds of the inputs of one close
MaxVolume == 4
MaxVolumeMin == 3
MaxVolumeStep == 2

\* symbol_info as _close_partial reads it
CloseInfos ==
  [ok : BOOLEAN, trade_tick_value : {0}, trade_tick_size : {0},
   volume_min : 1..MaxVolumeMin, volume_step : 1..MaxVolumeStep, volume_max : {0}]

\* ------------------------------------ specification of the close helper
\* the position of the snapshot as the venue holds it
HeldPosition(pv) ==
  [NoOrder EXCEPT !.st = "open", !.volume = pv, !.login = Handlers[1],
                  !.group = "G1"]
ManagedEntry(pv) ==
  NewEntry([account_login |-> Handlers[1], signal_data |-> Signals.G1,
            original_volume |-> pv, group_id |-> "G1"])

\* one close on each input: the position of the snapshot holds pv and its
\* instrument is sizing.symbol_info; a managed position has a close of v
\* scheduled, an unmanaged one is a ghost, to be closed in full
InitClose ==
  /\ \E pv \in 1..MaxVolume :
       /\ venue = [t \in Tickets |-> IF t = FirstTicket THEN HeldPosition(pv)
                                     ELSE NoOrder]
       /\ \/ /\ pc = "locked" /\ position_data = Empty
             /\ actions_to_perform = <<>>
          \/ /\ pc = "apply"
             /\ position_data = [t \in {FirstTicket} |-> ManagedEntry(pv)]
             /\ \E v \in 0..MaxVolume :
                  actions_to_perform = <<CloseAction([ticket |-> FirstTicket], v, 1)>>
  /\ open_positions = [t \in VenueOpen |-> PositionOf(t)]
  /\ \E symbol_info \in CloseInfos :
       sizing = [NoSizing EXCEPT !.symbol_info = symbol_info]
  /\ file = _save_state(position_data)
  /\ up = TRUE
  /\ nextTicket = FirstTicket + 1
  /\ registration_queue = <<>>
  /\ stop_event = FALSE
  /\ pending_orders = {}
  /\ cycle_secured = {}
  /\ market = NoMarket
  /\ log = {}
  /\ closeCount = [k \in Tickets \X (1..2) |-> 0]
  /\ pruned = {}
  /\ need = [t \in Tickets |-> 0]
  /\ atStop = Empty
  /\ lastWriter = "run"
  /\ cancel_owed = {}
  /\ conc = NoThreads /\ caught = 0 /\ trade = NoTrade

\* run(), lines 79-91: the scheduled close is handed to _close_partial
SendClose ==
  /\ pc = "apply" /\ actions_to_perform # <<>>
  /\ LET action == Head(actions_to_perform)
     IN \E v \in SentVolumes(open_positions[action.ticket], action.volume,
                             sizing.symbol_info) :
          log' = IF v > 0
                 THEN log \cup {[kind |-> "close", ticket |-> action.ticket,
                                 volume |-> v]}
                 ELSE log
  /\ actions_to_perform' = Tail(actions_to_perform)
  /\ pc' = "sleep"
  /\ UNCHANGED <<up, venue, nextTicket, position_data, registration_queue, file,
                 stop_event, open_positions, pending_orders, cycle_secured,
                 market, closeCount, pruned, need, atStop, lastWriter, sizing,
                 conc, caught, cancel_owed, trade>>

\* _cleanup_closed_trades, lines 125-129: a snapshot position that is not
\* managed is handed to _close_full
SendGhostClose ==
  /\ pc = "locked"
  /\ \E t \in (DOMAIN open_positions) \ (DOMAIN position_data) :
       \E v \in SentVolumes(open_positions[t], _close_full(open_positions[t]),
                            sizing.symbol_info) :
         log' = IF v > 0
                THEN log \cup {[kind |-> "ghost", ticket |-> t, volume |-> v]}
                ELSE log
  /\ pc' = "sleep"
  /\ UNCHANGED <<up, venue, nextTicket, position_data, registration_queue, file,
                 stop_event, open_positions, pending_orders, actions_to_perform,
                 cycle_secured, market, closeCount, pruned, need, atStop,
                 lastWriter, sizing, conc, caught, cancel_owed, trade>>

NextClose == SendClose \/ SendGhostClose
SpecClose == InitClose /\ [][NextClose]_vars

\* C39: every close order sent, partial or ghost, has a volume of at least
\* the instrument's volume_min and of at most the volume the position has in
\* the snapshot; when the position holds less than volume_min, the close
\* ends with nothing sent.
C39_SentVolumeWithinLimits ==
  /\ \A r \in log :
       r.kind \in {"close", "ghost"} =>
         /\ r.volume >= sizing.symbol_info.volume_min
         /\ r.volume <= open_positions[r.ticket].volume
  /\ \A t \in DOMAIN open_positions :
       pc = "sleep" /\ open_positions[t].volume < sizing.symbol_info.volume_min =>
         log = {}

\* a partial close was sent for less than was asked: the rounded volume was
\* cut to the volume of the position, on an instrument whose minimum is more
\* than one step
C39_Witness ==
  /\ pc = "sleep" /\ sizing.symbol_info.volume_min > 1
  /\ \E r \in log :
       /\ r.kind = "close"
       /\ r.volume = open_positions[r.ticket].volume
       /\ r.volume < MaxVolume

====
